---------------------------- MODULE Spec2Model ----------------------------
(***************************************************************************)
(* Sonnet: a JSON DOM (Sonnet::value), a recursive-descent parser          *)
(* (detail::parse_impl and the grammar functions it calls) and a           *)
(* serializer (detail::dump_impl).                                         *)
(*                                                                         *)
(* Texts are sequences of bytes (0..255).  The scanner index idx is        *)
(* 0-based as in the source, so the byte under the cursor is text[idx+1]. *)
(***************************************************************************)
EXTENDS Integers, Sequences, FiniteSets, TLC

VARIABLES toks, text, opts, pc, res, wopts, out, res2, doc, other, call

vars == <<toks, text, opts, pc, res, wopts, out, res2, doc, other, call>>

----------------------------------------------------------------------------
(* Bytes the source names as character literals.                           *)

CH_NUL == 0
CH_BS == 8
CH_TAB == 9
CH_LF == 10
CH_FF == 12
CH_CR == 13
CH_CTRL_LIMIT == 32
CH_SPACE == 32
CH_QUOTE == 34
CH_STAR == 42
CH_PLUS == 43
CH_COMMA == 44
CH_MINUS == 45
CH_DOT == 46
CH_SLASH == 47
CH_0 == 48
CH_9 == 57
CH_COLON == 58
CH_UPPER_A == 65
CH_UPPER_E == 69
CH_UPPER_F == 70
CH_LBRACKET == 91
CH_BACKSLASH == 92
CH_RBRACKET == 93
CH_LOWER_A == 97
CH_LOWER_B == 98
CH_LOWER_E == 101
CH_LOWER_F == 102
CH_LOWER_N == 110
CH_LOWER_R == 114
CH_LOWER_T == 116
CH_LOWER_U == 117
CH_LBRACE == 123
CH_RBRACE == 125

LIT_NULL == <<110, 117, 108, 108>>
LIT_TRUE == <<116, 114, 117, 101>>
LIT_FALSE == <<102, 97, 108, 115, 101>>

isdigit(c) == c >= CH_0 /\ c <= CH_9

----------------------------------------------------------------------------
(* Options.                                                                *)

ParseOptions(comments, commas, depth) ==
    [allow_comments |-> comments, allow_trailing_commas |-> commas, max_depth |-> depth]

DefaultParseOptions == ParseOptions(FALSE, FALSE, 0)

DEFAULT_INDENT == 2

WriteOptions(pretty) == [pretty |-> pretty, indent |-> DEFAULT_INDENT, sort_keys |-> FALSE]

----------------------------------------------------------------------------
(* Memory resources: values carry the resource they were constructed with. *)

DefaultResource == "default"

----------------------------------------------------------------------------
(* Sonnet::value: the active alternative k plus its payload, and m_MemRes. *)
(* An object is kept as std::map keeps it: entries in strictly ascending   *)
(* key order.                                                              *)

VNull(r) == [k |-> "null", res |-> r]
VBool(b, r) == [k |-> "boolean", res |-> r, b |-> b]
VNum(n, r) == [k |-> "number", res |-> r, n |-> n]
VStr(str, r) == [k |-> "string", res |-> r, s |-> str]
VArr(a, r) == [k |-> "array", res |-> r, a |-> a]
VObj(o, r) == [k |-> "object", res |-> r, o |-> o]

----------------------------------------------------------------------------
(* detail::Scanner                                                         *)

Scanner == [idx |-> 0, line |-> 1, column |-> 1, depth |-> 0, mem_res |-> DefaultResource]

eof(t, s) == s.idx >= Len(t)

peek(t, s) == IF eof(t, s) THEN CH_NUL ELSE t[s.idx + 1]

peek_next(t, s) == IF s.idx + 1 < Len(t) THEN t[s.idx + 2] ELSE CH_NUL

(* get() returns the byte peek() shows and moves the cursor; the operator  *)
(* yields the scanner after the call.                                      *)
(* A get() that counts a column for the newline instead of starting the    *)
(* next line at column 1.                                                  *)
get_counting_on(t, s) ==
    IF eof(t, s) THEN s
    ELSE IF t[s.idx + 1] = CH_LF
         THEN [s EXCEPT !.idx = @ + 1, !.line = @ + 1, !.column = @ + 1]
         ELSE [s EXCEPT !.idx = @ + 1, !.column = @ + 1]

get(t, s) ==
    IF eof(t, s) THEN s
    ELSE IF t[s.idx + 1] = CH_LF
         THEN [s EXCEPT !.idx = @ + 1, !.line = @ + 1, !.column = 1]
         ELSE [s EXCEPT !.idx = @ + 1, !.column = @ + 1]

consume(t, s, c) ==
    IF peek(t, s) = c THEN [hit |-> TRUE, s |-> get(t, s)]
                      ELSE [hit |-> FALSE, s |-> s]

(* An error record that reports the position behind the cursor.            *)
make_error_after(s, code) ==
    [errc |-> code, offset |-> s.idx + 1, line |-> s.line, column |-> s.column + 1]

make_error(s, code) ==
    [errc |-> code, offset |-> s.idx, line |-> s.line, column |-> s.column]

(* std::expected: a value with the scanner after the call, or an error.    *)
Ok(s, v) == [ok |-> TRUE, s |-> s, v |-> v]
Unexpected(s, e) == [ok |-> FALSE, s |-> s, err |-> e]
Fail(s, code) == Unexpected(s, make_error(s, code))

----------------------------------------------------------------------------
(* detail::DepthGuard                                                      *)

(* A guard that notices the limit one level late.                          *)
DepthGuard_late(o, s) ==
    IF o.max_depth # 0 /\ s.depth > o.max_depth
    THEN [active |-> FALSE, s |-> s]
    ELSE [active |-> TRUE, s |-> [s EXCEPT !.depth = @ + 1]]

DepthGuard(o, s) ==
    IF o.max_depth # 0
    THEN IF s.depth + 1 > o.max_depth
         THEN [active |-> FALSE, s |-> s]
         ELSE [active |-> TRUE, s |-> [s EXCEPT !.depth = @ + 1]]
    ELSE [active |-> TRUE, s |-> [s EXCEPT !.depth = @ + 1]]

(* A guard whose destructor leaves the counter as it is.                   *)
DepthGuardRelease_none(active, s) == s

(* ~DepthGuard applied to the scanner a function returns with.             *)
DepthGuardRelease(active, s) ==
    IF active THEN [s EXCEPT !.depth = @ - 1] ELSE s

Released(active, r) == [r EXCEPT !.s = DepthGuardRelease(active, @)]

----------------------------------------------------------------------------
(* detail::skip_ws_and_comments                                            *)

is_ws(c) == c = CH_SPACE \/ c = CH_TAB \/ c = CH_CR \/ c = CH_LF

RECURSIVE skip_line_comment(_, _)
skip_line_comment(t, s) ==
    IF ~eof(t, s) /\ peek(t, s) # CH_LF
    THEN skip_line_comment(t, get(t, s))
    ELSE s

RECURSIVE skip_block_comment(_, _)
skip_block_comment(t, s) ==
    IF eof(t, s) THEN [closed |-> FALSE, s |-> s]
    ELSE LET ch == peek(t, s)
             s1 == get(t, s)
         IN  IF ch = CH_STAR /\ peek(t, s1) = CH_SLASH
             THEN [closed |-> TRUE, s |-> get(t, s1)]
             ELSE skip_block_comment(t, s1)

RECURSIVE skip_ws_strict_only(_, _, _)
(* A skipper that skips whitespace only while comments are not allowed,    *)
(* and no comments.                                                        *)
skip_ws_strict_only(t, o, s) ==
    IF ~eof(t, s) /\ is_ws(peek(t, s)) /\ ~o.allow_comments
    THEN skip_ws_strict_only(t, o, get(t, s))
    ELSE Ok(s, <<>>)

RECURSIVE skip_ws_and_comments(_, _, _)
skip_ws_and_comments(t, o, s) ==
    LET block(b) ==
            IF ~b.closed
            THEN Fail(b.s, "unexpected_end_of_input")
            ELSE skip_ws_and_comments(t, o, b.s)
        comment(next, s2) ==
            IF next = CH_SLASH
            THEN skip_ws_and_comments(t, o, skip_line_comment(t, s2))
            ELSE IF next = CH_STAR
            THEN block(skip_block_comment(t, s2))
            ELSE Ok(s, <<>>)
        dispatch(c) ==
            IF is_ws(c) THEN skip_ws_and_comments(t, o, get(t, s))
            ELSE IF ~o.allow_comments \/ c # CH_SLASH THEN Ok(s, <<>>)
            ELSE comment(peek_next(t, s), get(t, get(t, s)))
    IN  IF eof(t, s) THEN Ok(s, <<>>) ELSE dispatch(peek(t, s))

----------------------------------------------------------------------------
(* detail::parse_literal                                                   *)

RECURSIVE parse_literal_from(_, _, _, _, _)
parse_literal_from(t, s, literal, i, code) ==
    IF i > Len(literal) THEN Ok(s, <<>>)
    ELSE IF eof(t, s) THEN Fail(s, "unexpected_end_of_input")
    ELSE LET c == peek(t, s)
             s1 == get(t, s)
         IN  IF c # literal[i] THEN Fail(s1, code)
             ELSE parse_literal_from(t, s1, literal, i + 1, code)

parse_literal(t, s, literal, code) == parse_literal_from(t, s, literal, 1, code)

----------------------------------------------------------------------------
(* detail::is_valid_utf8                                                   *)

IsCont(c) == c >= 128 /\ c <= 191

RECURSIVE utf8_from(_, _)
utf8_from(d, i) ==
    LET n == Len(d) IN
    IF i >= n THEN TRUE
    ELSE LET c == d[i + 1] IN
         IF c <= 127 THEN utf8_from(d, i + 1)
         ELSE IF c >= 194 /\ c <= 223
         THEN IF i + 1 >= n THEN FALSE
              ELSE IF ~IsCont(d[i + 2]) THEN FALSE
              ELSE utf8_from(d, i + 2)
         ELSE IF (c >= 225 /\ c <= 236) \/ (c >= 238 /\ c <= 239)
         THEN IF i + 2 >= n THEN FALSE
              ELSE IF ~IsCont(d[i + 2]) THEN FALSE
              ELSE IF ~IsCont(d[i + 3]) THEN FALSE
              ELSE utf8_from(d, i + 3)
         ELSE IF c = 224
         THEN IF i + 2 >= n THEN FALSE
              ELSE IF d[i + 2] < 160 \/ d[i + 2] > 191 THEN FALSE
              ELSE IF ~IsCont(d[i + 3]) THEN FALSE
              ELSE utf8_from(d, i + 3)
         ELSE IF c = 237
         THEN IF i + 2 >= n THEN FALSE
              ELSE IF d[i + 2] < 128 \/ d[i + 2] > 159 THEN FALSE
              ELSE IF ~IsCont(d[i + 3]) THEN FALSE
              ELSE utf8_from(d, i + 3)
         ELSE IF c = 240
         THEN IF i + 3 >= n THEN FALSE
              ELSE IF d[i + 2] < 144 \/ d[i + 2] > 191 THEN FALSE
              ELSE IF ~IsCont(d[i + 3]) THEN FALSE
              ELSE IF ~IsCont(d[i + 4]) THEN FALSE
              ELSE utf8_from(d, i + 4)
         ELSE IF c >= 241 /\ c <= 243
         THEN IF i + 3 >= n THEN FALSE
              ELSE IF ~IsCont(d[i + 2]) THEN FALSE
              ELSE IF ~IsCont(d[i + 3]) THEN FALSE
              ELSE IF ~IsCont(d[i + 4]) THEN FALSE
              ELSE utf8_from(d, i + 4)
         ELSE IF c = 244
         THEN IF i + 3 >= n THEN FALSE
              ELSE IF d[i + 2] < 128 \/ d[i + 2] > 143 THEN FALSE
              ELSE IF ~IsCont(d[i + 3]) THEN FALSE
              ELSE IF ~IsCont(d[i + 4]) THEN FALSE
              ELSE utf8_from(d, i + 4)
         ELSE FALSE

(* A validation that accepts every byte sequence.                          *)
is_valid_utf8_any(d) == TRUE

is_valid_utf8(d) == utf8_from(d, 0)

----------------------------------------------------------------------------
(* detail::append_utf8                                                     *)

append_utf8(cp, o) ==
    IF cp <= 127 THEN Append(o, cp)
    ELSE IF cp <= 2047
    THEN o \o <<192 + ((cp \div 64) % 32), 128 + (cp % 64)>>
    ELSE IF cp <= 65535
    THEN o \o <<224 + ((cp \div 4096) % 16), 128 + ((cp \div 64) % 64), 128 + (cp % 64)>>
    ELSE IF cp <= 1114111
    THEN o \o <<240 + ((cp \div 262144) % 8), 128 + ((cp \div 4096) % 64),
                128 + ((cp \div 64) % 64), 128 + (cp % 64)>>
    ELSE o \o <<239, 191, 189>>

----------------------------------------------------------------------------
(* detail::parse_string                                                    *)

hex_digit(h) ==
    IF h >= CH_0 /\ h <= CH_9 THEN h - CH_0
    ELSE IF h >= CH_UPPER_A /\ h <= CH_UPPER_F THEN 10 + (h - CH_UPPER_A)
    ELSE IF h >= CH_LOWER_A /\ h <= CH_LOWER_F THEN 10 + (h - CH_LOWER_A)
    ELSE -1

RECURSIVE parse_hex4_from(_, _, _, _)
parse_hex4_from(t, s, i, val) ==
    IF i >= 4 THEN Ok(s, val)
    ELSE IF eof(t, s) THEN Fail(s, "invalid_unicode_escape")
    ELSE LET h == peek(t, s)
             s1 == get(t, s)
         IN  IF hex_digit(h) < 0 THEN Fail(s1, "invalid_unicode_escape")
             ELSE parse_hex4_from(t, s1, i + 1, ((val * 16) % 65536) + hex_digit(h))

parse_hex4(t, s) == parse_hex4_from(t, s, 0, 0)

(* An escape decoder that takes every \uXXXX as a code point of its own.   *)
parse_unicode_escape_unpaired(t, s) == parse_hex4(t, s)

(* case 'u' of the escape switch: yields the decoded code point.           *)
parse_unicode_escape(t, s) ==
    LET low(first, r2) ==
            IF ~r2.ok THEN r2
            ELSE IF ~(r2.v >= 56320 /\ r2.v <= 57343)
            THEN Fail(r2.s, "invalid_unicode_escape")
            ELSE Ok(r2.s, 65536 + ((first - 55296) * 1024 + (r2.v - 56320)))
        low_u(first, c2) ==
            IF ~c2.hit THEN Fail(c2.s, "invalid_unicode_escape")
            ELSE low(first, parse_hex4(t, c2.s))
        low_backslash(first, c1) ==
            IF ~c1.hit THEN Fail(c1.s, "invalid_unicode_escape")
            ELSE low_u(first, consume(t, c1.s, CH_LOWER_U))
        high(r1) ==
            IF ~r1.ok THEN r1
            ELSE IF r1.v >= 55296 /\ r1.v <= 56319
            THEN low_backslash(r1.v, consume(t, r1.s, CH_BACKSLASH))
            ELSE IF r1.v >= 56320 /\ r1.v <= 57343
            THEN Fail(r1.s, "invalid_unicode_escape")
            ELSE Ok(r1.s, r1.v)
    IN  high(parse_hex4(t, s))

RECURSIVE parse_string_loop(_, _, _)
parse_string_loop(t, s, o) ==
    LET unicode(u) ==
            IF ~u.ok THEN u
            ELSE parse_string_loop(t, u.s, append_utf8(u.v, o))
        escape(esc, s2) ==
            CASE esc = CH_QUOTE -> parse_string_loop(t, s2, Append(o, CH_QUOTE))
              [] esc = CH_BACKSLASH -> parse_string_loop(t, s2, Append(o, CH_BACKSLASH))
              [] esc = CH_SLASH -> parse_string_loop(t, s2, Append(o, CH_SLASH))
              [] esc = CH_LOWER_B -> parse_string_loop(t, s2, Append(o, CH_BS))
              [] esc = CH_LOWER_F -> parse_string_loop(t, s2, Append(o, CH_FF))
              [] esc = CH_LOWER_N -> parse_string_loop(t, s2, Append(o, CH_LF))
              [] esc = CH_LOWER_R -> parse_string_loop(t, s2, Append(o, CH_CR))
              [] esc = CH_LOWER_T -> parse_string_loop(t, s2, Append(o, CH_TAB))
              [] esc = CH_LOWER_U -> unicode(parse_unicode_escape(t, s2))
              [] OTHER -> Fail(s2, "invalid_escape")
        char(c, s1) ==
            IF c = CH_QUOTE
            THEN IF ~is_valid_utf8(o) THEN Fail(s1, "invalid_string") ELSE Ok(s1, o)
            ELSE IF c < CH_CTRL_LIMIT THEN Fail(s1, "invalid_string")
            ELSE IF c = CH_BACKSLASH
            THEN IF eof(t, s1) THEN Fail(s1, "invalid_escape")
                 ELSE escape(peek(t, s1), get(t, s1))
            ELSE parse_string_loop(t, s1, Append(o, c))
    IN  IF eof(t, s) THEN Fail(s, "unexpected_end_of_input")
        ELSE char(peek(t, s), get(t, s))

parse_string(t, s) ==
    LET q == consume(t, s, CH_QUOTE) IN
    IF ~q.hit THEN Fail(q.s, "invalid_string")
    ELSE parse_string_loop(t, q.s, <<>>)

----------------------------------------------------------------------------
(* Doubles.  A finite double is kept as the decimal it stands for:         *)
(* (-1)^neg * d1.d2d3... * 10^x with dig = <<d1, d2, ...>>, d1 # 0 and no  *)
(* trailing zero; zero has dig = <<>> and x = 0.  Literals of fewer than   *)
(* 16 significant digits denote distinct doubles, and the shortest         *)
(* round-trip text of such a double has exactly these digits.              *)

(* cls tells a finite double from an infinity or a NaN.                     *)

Double(neg, dig, x) == [cls |-> "finite", neg |-> neg, dig |-> dig, x |-> x]
Infinity(neg) == [cls |-> "inf", neg |-> neg, dig |-> <<>>, x |-> 0]
NaN == [cls |-> "nan", neg |-> FALSE, dig |-> <<>>, x |-> 0]

(* A test that takes every double for a finite one.                        *)
isfinite_always(d) == TRUE

isfinite(d) == d.cls = "finite"

(* operator== of double: a NaN equals nothing, the two zeros are equal.    *)
double_eq(a, b) ==
    /\ a.cls # "nan" /\ b.cls # "nan"
    /\ a.cls = b.cls
    /\ a.dig = b.dig
    /\ a.x = b.x
    /\ (a.neg = b.neg \/ (a.cls = "finite" /\ a.dig = <<>>))

RECURSIVE LeadingZeros(_)
LeadingZeros(d) ==
    IF d = <<>> \/ d[1] # 0 THEN 0 ELSE 1 + LeadingZeros(Tail(d))

RECURSIVE StripTrailingZeros(_)
StripTrailingZeros(d) ==
    IF d = <<>> \/ d[Len(d)] # 0 THEN d ELSE StripTrailingZeros(SubSeq(d, 1, Len(d) - 1))

RECURSIVE DigitsLess(_, _)
DigitsLess(a, b) ==
    IF b = <<>> THEN FALSE
    ELSE IF a = <<>> THEN TRUE
    ELSE IF a[1] # b[1] THEN a[1] < b[1]
    ELSE DigitsLess(Tail(a), Tail(b))

(* Largest finite double 1.7976931348623157e308; texts up to half an ulp   *)
(* above it still round to it.  Half the smallest subnormal is             *)
(* 2.4703282292062327e-324; texts not above it round to zero.              *)
DBL_MAX_EXP10 == 308
DBL_MAX_DIGITS == <<1, 7, 9, 7, 6, 9, 3, 1, 3, 4, 8, 6, 2, 3, 1, 5, 8>>
DBL_TRUE_MIN_EXP10 == -324
DBL_HALF_MIN_DIGITS == <<2, 4, 7, 0, 3, 2, 8, 2, 2, 9, 2, 0, 6, 2, 3, 2, 8>>

fc_overflow(dig, x) ==
    x > DBL_MAX_EXP10 \/ (x = DBL_MAX_EXP10 /\ ~DigitsLess(dig, DBL_MAX_DIGITS))

fc_underflow(dig, x) ==
    x < DBL_TRUE_MIN_EXP10 \/ (x = DBL_TRUE_MIN_EXP10 /\ DigitsLess(dig, DBL_HALF_MIN_DIGITS))

RECURSIVE fc_digits(_, _)
(* The run of decimal digits of lx starting at position i (1-based).       *)
fc_digits(lx, i) ==
    IF i > Len(lx) \/ ~isdigit(lx[i]) THEN <<>>
    ELSE <<lx[i] - CH_0>> \o fc_digits(lx, i + 1)

RECURSIVE fc_nat(_, _)
(* The number a digit run denotes, saturating once it is out of any range. *)
fc_nat(d, acc) ==
    IF d = <<>> THEN acc
    ELSE IF acc >= 100000 THEN fc_nat(Tail(d), acc)
    ELSE fc_nat(Tail(d), acc * 10 + d[1])

(* std::from_chars(first, last, double&) on a lexeme parse_number accepted *)
from_chars(lx) ==
    LET neg == lx # <<>> /\ lx[1] = CH_MINUS
        result(dig, x) ==
            IF dig = <<>> THEN [ec |-> "ok", value |-> Double(neg, <<>>, 0)]
            ELSE IF fc_overflow(dig, x) \/ fc_underflow(dig, x)
            THEN [ec |-> "result_out_of_range", value |-> Double(FALSE, <<>>, 0)]
            ELSE [ec |-> "ok", value |-> Double(neg, dig, x)]
        normalise(ip, all, lead, e) ==
            result(StripTrailingZeros(SubSeq(all, lead + 1, Len(all))),
                   Len(ip) - 1 - lead + e)
        significand(ip, fp, e) == normalise(ip, ip \o fp, LeadingZeros(ip \o fp), e)
        magnitude(ip, fp, expNeg, mag) ==
            significand(ip, fp, IF expNeg THEN 0 - mag ELSE mag)
        exponent(ip, fp, i2) ==
            LET hasExp == i2 <= Len(lx) /\ (lx[i2] = CH_LOWER_E \/ lx[i2] = CH_UPPER_E)
                signed(c) == hasExp /\ i2 + 1 <= Len(lx) /\ lx[i2 + 1] = c
            IN  IF ~hasExp THEN significand(ip, fp, 0)
                ELSE magnitude(ip, fp, signed(CH_MINUS),
                               fc_nat(fc_digits(lx, IF signed(CH_MINUS) \/ signed(CH_PLUS)
                                                    THEN i2 + 2 ELSE i2 + 1), 0))
        fraction_digits(ip, i1, fp) == exponent(ip, fp, i1 + 1 + Len(fp))
        fraction(ip, i1) ==
            IF i1 <= Len(lx) /\ lx[i1] = CH_DOT
            THEN fraction_digits(ip, i1, fc_digits(lx, i1 + 1))
            ELSE exponent(ip, <<>>, i1)
        integer(i0, ip) == fraction(ip, i0 + Len(ip))
        digits(i0) == integer(i0, fc_digits(lx, i0))
    IN  digits(IF neg THEN 2 ELSE 1)

----------------------------------------------------------------------------
(* detail::parse_number                                                    *)

RECURSIVE skip_digits(_, _)
skip_digits(t, s) ==
    IF isdigit(peek(t, s)) THEN skip_digits(t, get(t, s)) ELSE s

(* A scanner without the check of what follows the exponent.               *)
exponent_terminator_any(c) == TRUE

exponent_terminator(c) ==
    c = CH_NUL \/ c = CH_COMMA \/ c = CH_RBRACKET \/ c = CH_RBRACE \/ is_ws(c)

(* A scanner that lets a literal start with superfluous zeros.             *)
leading_zero_allowed(first_digit, nxt) == FALSE

leading_zero(first_digit, nxt) == first_digit = CH_0 /\ isdigit(nxt)

number_convert(t, start, s) ==
    LET converted(fc) == IF fc.ec # "ok" THEN Fail(s, "invalid_number") ELSE Ok(s, fc.value)
    IN  converted(from_chars(SubSeq(t, start + 1, s.idx)))

parse_number(t, s) ==
    LET start == s.idx
        exponent_end(sH) ==
            IF ~exponent_terminator(peek(t, sH)) THEN Fail(sH, "invalid_number")
            ELSE number_convert(t, start, sH)
        exponent_digits(sG) ==
            IF ~isdigit(peek(t, sG)) THEN Fail(sG, "invalid_number")
            ELSE exponent_end(skip_digits(t, sG))
        exponent_sign(sF) ==
            exponent_digits(IF peek(t, sF) = CH_PLUS \/ peek(t, sF) = CH_MINUS
                            THEN get(t, sF) ELSE sF)
        exponent(sE) ==
            IF peek(t, sE) = CH_LOWER_E \/ peek(t, sE) = CH_UPPER_E
            THEN exponent_sign(get(t, sE))
            ELSE number_convert(t, start, sE)
        fraction_digits(sD) ==
            IF ~isdigit(peek(t, sD)) THEN Fail(sD, "invalid_number")
            ELSE exponent(skip_digits(t, sD))
        fraction(sC) ==
            IF peek(t, sC) = CH_DOT THEN fraction_digits(get(t, sC)) ELSE exponent(sC)
        integer(first_digit, sB) ==
            IF ~isdigit(first_digit) THEN Fail(sB, "invalid_number")
            ELSE IF leading_zero(first_digit, peek(t, sB)) THEN Fail(sB, "invalid_number")
            ELSE fraction(skip_digits(t, sB))
        digits(sA) == integer(peek(t, sA), get(t, sA))
        minus(sA) ==
            IF ~isdigit(peek(t, sA)) THEN Fail(sA, "unexpected_character") ELSE digits(sA)
    IN  IF peek(t, s) = CH_MINUS THEN minus(get(t, s)) ELSE digits(s)

----------------------------------------------------------------------------
(* object: std::pmr::map<string, value, std::less<>>                       *)

RECURSIVE string_less(_, _)
(* std::less<> on strings: lexicographic on unsigned bytes.                *)
string_less(a, b) ==
    IF b = <<>> THEN FALSE
    ELSE IF a = <<>> THEN TRUE
    ELSE IF a[1] # b[1] THEN a[1] < b[1]
    ELSE string_less(Tail(a), Tail(b))

RECURSIVE map_find(_, _, _)
(* Position of key in the entries o from position i on, 0 when absent.     *)
map_find(o, key, i) ==
    IF i > Len(o) THEN 0
    ELSE IF o[i].key = key THEN i
    ELSE map_find(o, key, i + 1)

RECURSIVE map_lower_bound(_, _, _)
(* Number of entries of o, from position i on, whose key is below key.     *)
map_lower_bound(o, key, i) ==
    IF i > Len(o) \/ ~string_less(o[i].key, key) THEN i - 1
    ELSE map_lower_bound(o, key, i + 1)

(* A map in which the first value stored under a key stays.                *)
map_assign_first(o, key, val) ==
    IF map_find(o, key, 1) # 0 THEN o
    ELSE SubSeq(o, 1, map_lower_bound(o, key, 1)) \o <<[key |-> key, val |-> val]>>
         \o SubSeq(o, map_lower_bound(o, key, 1) + 1, Len(o))

(* obj[key] = val: assigns the existing entry or inserts in key order.     *)
map_assign(o, key, val) ==
    LET at == map_find(o, key, 1) IN
    IF at # 0 THEN [o EXCEPT ![at].val = val]
    ELSE LET n == map_lower_bound(o, key, 1) IN
         SubSeq(o, 1, n) \o <<[key |-> key, val |-> val]>> \o SubSeq(o, n + 1, Len(o))

----------------------------------------------------------------------------
(* detail::parse_value, detail::parse_array, detail::parse_object          *)

RECURSIVE parse_value(_, _, _)
RECURSIVE parse_array_loop(_, _, _, _)
RECURSIVE parse_object_loop(_, _, _, _)

(* A parser that accepts a trailing comma in an array whatever the options *)
(* say.                                                                    *)
array_trailing_comma_lenient(t, o, s, arr) == Ok(get(t, s), VArr(arr, s.mem_res))

(* The rejection of a comma that is directly followed by the closing       *)
(* bracket of an array.                                                    *)
array_trailing_comma(t, o, s, arr) ==
    IF o.allow_trailing_commas
    THEN Ok(get(t, s), VArr(arr, s.mem_res))
    ELSE Fail(s, "trailing_characters")

parse_array_loop(t, o, s, arr) ==
    LET after_comma(arr1, ws2) ==
            IF ~ws2.ok THEN ws2
            ELSE IF peek(t, ws2.s) = CH_RBRACKET
            THEN array_trailing_comma(t, o, ws2.s, arr1)
            ELSE parse_array_loop(t, o, ws2.s, arr1)
        separator(arr1, s1, c) ==
            IF c = CH_COMMA
            THEN after_comma(arr1, skip_ws_and_comments(t, o, get(t, s1)))
            ELSE IF c = CH_RBRACKET THEN Ok(get(t, s1), VArr(arr1, s1.mem_res))
            ELSE IF c = CH_NUL THEN Fail(s1, "unexpected_end_of_input")
            ELSE Fail(s1, "unexpected_character")
        after_element(arr1, ws) ==
            IF ~ws.ok THEN ws ELSE separator(arr1, ws.s, peek(t, ws.s))
        element(elem) ==
            IF ~elem.ok THEN elem
            ELSE after_element(Append(arr, elem.v), skip_ws_and_comments(t, o, elem.s))
    IN  element(parse_value(t, o, s))

parse_array(t, o, s) ==
    LET first(guard, e) ==
            IF e.hit THEN Released(guard.active, Ok(e.s, VArr(<<>>, e.s.mem_res)))
            ELSE Released(guard.active, parse_array_loop(t, o, e.s, <<>>))
        opened(guard, ws) ==
            IF ~ws.ok THEN Released(guard.active, ws)
            ELSE first(guard, consume(t, ws.s, CH_RBRACKET))
        bracket(guard, b) ==
            IF ~b.hit THEN Released(guard.active, Fail(b.s, "unexpected_character"))
            ELSE opened(guard, skip_ws_and_comments(t, o, b.s))
        guarded(guard) ==
            IF o.max_depth # 0 /\ ~guard.active
            THEN Released(guard.active, Fail(guard.s, "depth_limit_exceeded"))
            ELSE bracket(guard, consume(t, guard.s, CH_LBRACKET))
    IN  guarded(DepthGuard(o, s))

parse_object_loop(t, o, s, obj) ==
    LET after_comma(obj1, ws4) ==
            IF ~ws4.ok THEN ws4
            ELSE IF o.allow_trailing_commas /\ peek(t, ws4.s) = CH_RBRACE
            THEN Ok(get(t, ws4.s), VObj(obj1, ws4.s.mem_res))
            ELSE parse_object_loop(t, o, ws4.s, obj1)
        separator(obj1, s3, c3) ==
            IF c3 = CH_COMMA
            THEN after_comma(obj1, skip_ws_and_comments(t, o, get(t, s3)))
            ELSE IF c3 = CH_RBRACE THEN Ok(get(t, s3), VObj(obj1, s3.mem_res))
            ELSE IF c3 = CH_NUL THEN Fail(s3, "unexpected_end_of_input")
            ELSE Fail(s3, "unexpected_character")
        after_member(obj1, ws3) ==
            IF ~ws3.ok THEN ws3 ELSE separator(obj1, ws3.s, peek(t, ws3.s))
        member(key, val) ==
            IF ~val.ok THEN val
            ELSE after_member(map_assign(obj, key, val.v),
                              skip_ws_and_comments(t, o, val.s))
        after_colon(key, ws2) ==
            IF ~ws2.ok THEN ws2 ELSE member(key, parse_value(t, o, ws2.s))
        colon(key, ws1) ==
            IF ~ws1.ok THEN ws1
            ELSE IF peek(t, ws1.s) = CH_NUL THEN Fail(ws1.s, "unexpected_end_of_input")
            ELSE IF peek(t, ws1.s) # CH_COLON THEN Fail(ws1.s, "unexpected_character")
            ELSE after_colon(key, skip_ws_and_comments(t, o, get(t, ws1.s)))
        key(key_val) ==
            IF ~key_val.ok THEN key_val
            ELSE colon(key_val.v, skip_ws_and_comments(t, o, key_val.s))
    IN  IF peek(t, s) = CH_NUL THEN Fail(s, "unexpected_end_of_input")
        ELSE IF peek(t, s) # CH_QUOTE THEN Fail(s, "unexpected_character")
        ELSE key(parse_string(t, s))

parse_object(t, o, s) ==
    LET first(guard, e) ==
            IF e.hit THEN Released(guard.active, Ok(e.s, VObj(<<>>, e.s.mem_res)))
            ELSE Released(guard.active, parse_object_loop(t, o, e.s, <<>>))
        opened(guard, ws) ==
            IF ~ws.ok THEN Released(guard.active, ws)
            ELSE first(guard, consume(t, ws.s, CH_RBRACE))
        brace(guard, b) ==
            IF ~b.hit THEN Released(guard.active, Fail(b.s, "unexpected_character"))
            ELSE opened(guard, skip_ws_and_comments(t, o, b.s))
        guarded(guard) ==
            IF o.max_depth # 0 /\ ~guard.active
            THEN Released(guard.active, Fail(guard.s, "depth_limit_exceeded"))
            ELSE brace(guard, consume(t, guard.s, CH_LBRACE))
    IN  guarded(DepthGuard(o, s))

parse_value(t, o, s0) ==
    LET literal(r, v) == IF ~r.ok THEN r ELSE Ok(r.s, v)
        string(str) == IF ~str.ok THEN str ELSE Ok(str.s, VStr(str.v, str.s.mem_res))
        number(num) == IF ~num.ok THEN num ELSE Ok(num.s, VNum(num.v, num.s.mem_res))
        dispatch(s, c) ==
            CASE c = CH_LOWER_N ->
                   literal(parse_literal(t, s, LIT_NULL, "unexpected_character"),
                           VNull(s.mem_res))
              [] c = CH_LOWER_T ->
                   literal(parse_literal(t, s, LIT_TRUE, "unexpected_character"),
                           VBool(TRUE, s.mem_res))
              [] c = CH_LOWER_F ->
                   literal(parse_literal(t, s, LIT_FALSE, "unexpected_character"),
                           VBool(FALSE, s.mem_res))
              [] c = CH_QUOTE -> string(parse_string(t, s))
              [] c = CH_LBRACKET -> parse_array(t, o, s)
              [] c = CH_LBRACE -> parse_object(t, o, s)
              [] OTHER ->
                   IF c = CH_MINUS \/ (c >= CH_0 /\ c <= CH_9)
                   THEN number(parse_number(t, s))
                   ELSE IF c = CH_DOT THEN Fail(s, "invalid_number")
                   ELSE Fail(s, "unexpected_character")
        skipped(ws) ==
            IF ~ws.ok THEN ws
            ELSE IF eof(t, ws.s) THEN Fail(ws.s, "unexpected_end_of_input")
            ELSE dispatch(ws.s, peek(t, ws.s))
    IN  skipped(skip_ws_and_comments(t, o, s0))

----------------------------------------------------------------------------
(* detail::parse_impl                                                      *)

(* An entry point that does not require the end of the input after the    *)
(* value.                                                                  *)
parse_impl_any_tail(t, o) ==
    LET root(v) == IF ~v.ok THEN v ELSE Ok(v.s, v.v)
    IN  root(parse_value(t, o, Scanner))

(* An entry point that skips the whitespace and comments behind a failed   *)
(* value before it returns the value's error.                              *)
parse_impl_scanning_on(t, o) ==
    LET onward(v, ws) == IF v.ok \/ ~ws.ok THEN parse_impl_any_tail(t, o)
                         ELSE Unexpected(ws.s, v.err)
        root(v) == onward(v, skip_ws_and_comments(t, o, v.s))
    IN  root(parse_value(t, o, Scanner))

parse_impl(t, o) ==
    LET trailing(v, ws) ==
            IF ~ws.ok THEN ws
            ELSE IF ~eof(t, ws.s) THEN Fail(ws.s, "trailing_characters")
            ELSE Ok(ws.s, v.v)
        root(v) == IF ~v.ok THEN v ELSE trailing(v, skip_ws_and_comments(t, o, v.s))
    IN  root(parse_value(t, o, Scanner))

----------------------------------------------------------------------------
(* Defaulted comparison of value: m_MemRes first, then m_Storage.          *)

RECURSIVE value_eq(_, _)
RECURSIVE array_eq(_, _, _)
RECURSIVE object_eq(_, _, _)

array_eq(a, b, i) ==
    IF i > Len(a) THEN TRUE
    ELSE value_eq(a[i], b[i]) /\ array_eq(a, b, i + 1)

object_eq(a, b, i) ==
    IF i > Len(a) THEN TRUE
    ELSE a[i].key = b[i].key /\ value_eq(a[i].val, b[i].val) /\ object_eq(a, b, i + 1)

storage_eq(a, b) ==
    /\ a.k = b.k
    /\ CASE a.k = "null" -> TRUE
         [] a.k = "boolean" -> a.b = b.b
         [] a.k = "number" -> double_eq(a.n, b.n)
         [] a.k = "string" -> a.s = b.s
         [] a.k = "array" -> Len(a.a) = Len(b.a) /\ array_eq(a.a, b.a, 1)
         [] a.k = "object" -> Len(a.o) = Len(b.o) /\ object_eq(a.o, b.o, 1)

value_eq(a, b) == a.res = b.res /\ storage_eq(a, b)

----------------------------------------------------------------------------
(* std::to_chars(first, last, double, chars_format::general): the shortest *)
(* digits that round-trip, in fixed notation when the decimal exponent x   *)
(* satisfies -4 <= x < 6 and in scientific notation otherwise.             *)

GENERAL_MIN_EXP == -4
GENERAL_MAX_EXP == 6

RECURSIVE Zeros(_)
Zeros(n) == IF n <= 0 THEN <<>> ELSE <<CH_0>> \o Zeros(n - 1)

RECURSIVE DigitChars(_)
DigitChars(d) == IF d = <<>> THEN <<>> ELSE <<CH_0 + d[1]>> \o DigitChars(Tail(d))

RECURSIVE NatChars(_)
NatChars(n) == IF n < 10 THEN <<CH_0 + n>> ELSE NatChars(n \div 10) \o <<CH_0 + (n % 10)>>

to_chars_fixed(dig, x) ==
    IF x >= 0
    THEN IF Len(dig) <= x + 1
         THEN DigitChars(dig) \o Zeros(x + 1 - Len(dig))
         ELSE DigitChars(SubSeq(dig, 1, x + 1)) \o <<CH_DOT>>
              \o DigitChars(SubSeq(dig, x + 2, Len(dig)))
    ELSE <<CH_0, CH_DOT>> \o Zeros((0 - x) - 1) \o DigitChars(dig)

to_chars_scientific(dig, x) ==
    LET mant == IF Len(dig) = 1 THEN DigitChars(dig)
                ELSE <<CH_0 + dig[1], CH_DOT>> \o DigitChars(Tail(dig))
        ax == IF x < 0 THEN 0 - x ELSE x
        ex == IF ax < 10 THEN <<CH_0>> \o NatChars(ax) ELSE NatChars(ax)
    IN  mant \o <<CH_LOWER_E, IF x < 0 THEN CH_MINUS ELSE CH_PLUS>> \o ex

to_chars(d) ==
    (IF d.neg THEN <<CH_MINUS>> ELSE <<>>) \o
    (IF d.cls = "nan" THEN <<CH_LOWER_N, CH_LOWER_A, CH_LOWER_N>>
     ELSE IF d.cls = "inf" THEN <<CH_LOWER_A + 8, CH_LOWER_N, CH_LOWER_F>>
     ELSE IF d.dig = <<>> THEN <<CH_0>>
     ELSE IF d.x >= GENERAL_MIN_EXP /\ d.x < GENERAL_MAX_EXP
     THEN to_chars_fixed(d.dig, d.x)
     ELSE to_chars_scientific(d.dig, d.x))

----------------------------------------------------------------------------
(* detail::dump_string, detail::dump_indent, detail::dump_impl             *)

HEX == <<48, 49, 50, 51, 52, 53, 54, 55, 56, 57, 65, 66, 67, 68, 69, 70>>

(* A writer that copies every byte of a string as it is.                   *)
dump_char_raw(c) == <<c>>

dump_char(c) ==
    CASE c = CH_QUOTE -> <<CH_BACKSLASH, CH_QUOTE>>
      [] c = CH_BACKSLASH -> <<CH_BACKSLASH, CH_BACKSLASH>>
      [] c = CH_BS -> <<CH_BACKSLASH, CH_LOWER_B>>
      [] c = CH_FF -> <<CH_BACKSLASH, CH_LOWER_F>>
      [] c = CH_LF -> <<CH_BACKSLASH, CH_LOWER_N>>
      [] c = CH_CR -> <<CH_BACKSLASH, CH_LOWER_R>>
      [] c = CH_TAB -> <<CH_BACKSLASH, CH_LOWER_T>>
      [] OTHER ->
           IF c < CH_CTRL_LIMIT
           THEN <<CH_BACKSLASH, CH_LOWER_U, CH_0, CH_0, HEX[((c \div 16) % 16) + 1], HEX[(c % 16) + 1]>>
           ELSE <<c>>

RECURSIVE dump_chars(_)
dump_chars(str) ==
    IF str = <<>> THEN <<>> ELSE dump_char(str[1]) \o dump_chars(Tail(str))

dump_string(str) == <<CH_QUOTE>> \o dump_chars(str) \o <<CH_QUOTE>>

RECURSIVE Spaces(_)
Spaces(n) == IF n <= 0 THEN <<>> ELSE <<CH_SPACE>> \o Spaces(n - 1)

dump_indent(depth, w) ==
    IF ~w.pretty \/ w.indent = 0 THEN <<>> ELSE Spaces(depth * w.indent)

RECURSIVE dump_impl(_, _, _)
RECURSIVE dump_array_items(_, _, _, _)
RECURSIVE dump_object_items(_, _, _, _)

dump_array_items(arr, w, depth, i) ==
    IF i > Len(arr) THEN <<>>
    ELSE (IF w.pretty THEN dump_indent(depth + 1, w) ELSE <<>>)
         \o dump_impl(arr[i], w, depth + 1)
         \o (IF i < Len(arr) THEN <<CH_COMMA>> ELSE <<>>)
         \o (IF w.pretty THEN <<CH_LF>> ELSE <<>>)
         \o dump_array_items(arr, w, depth, i + 1)

dump_object_items(obj, w, depth, i) ==
    IF i > Len(obj) THEN <<>>
    ELSE (IF w.pretty THEN dump_indent(depth + 1, w) ELSE <<>>)
         \o dump_string(obj[i].key)
         \o (IF w.pretty THEN <<CH_COLON, CH_SPACE>> ELSE <<CH_COLON>>)
         \o dump_impl(obj[i].val, w, depth + 1)
         \o (IF i < Len(obj) THEN <<CH_COMMA>> ELSE <<>>)
         \o (IF w.pretty THEN <<CH_LF>> ELSE <<>>)
         \o dump_object_items(obj, w, depth, i + 1)

dump_impl(v, w, depth) ==
    CASE v.k = "null" -> LIT_NULL
      [] v.k = "boolean" -> IF v.b THEN LIT_TRUE ELSE LIT_FALSE
      [] v.k = "number" -> IF ~isfinite(v.n) THEN LIT_NULL ELSE to_chars(v.n)
      [] v.k = "string" -> dump_string(v.s)
      [] v.k = "array" ->
           IF Len(v.a) = 0 THEN <<CH_LBRACKET, CH_RBRACKET>>
           ELSE <<CH_LBRACKET>>
                \o (IF w.pretty THEN <<CH_LF>> ELSE <<>>)
                \o dump_array_items(v.a, w, depth, 1)
                \o (IF w.pretty THEN dump_indent(depth, w) ELSE <<>>)
                \o <<CH_RBRACKET>>
      [] v.k = "object" ->
           IF Len(v.o) = 0 THEN <<CH_LBRACE, CH_RBRACE>>
           ELSE <<CH_LBRACE>>
                \o (IF w.pretty THEN <<CH_LF>> ELSE <<>>)
                \o dump_object_items(v.o, w, depth, 1)
                \o (IF w.pretty THEN dump_indent(depth, w) ELSE <<>>)
                \o <<CH_RBRACE>>

dump(v, w) == dump_impl(v, w, 0)

----------------------------------------------------------------------------
(* The program around the library: a caller composes an input text from    *)
(* pieces, parses it under some options, dumps the parsed value and parses *)
(* the dump again (test/tests.cpp, "Parse/Dump/Parse Property").           *)

(* No call of the DOM API has been made yet.                               *)
NoCall == [op |-> "none"]

NoResult == Unexpected(Scanner, [errc |-> "none", offset |-> 0, line |-> 1, column |-> 1])

Init ==
    /\ toks = <<>>
    /\ text = <<>>
    /\ opts = DefaultParseOptions
    /\ pc = "input"
    /\ res = NoResult
    /\ wopts = WriteOptions(FALSE)
    /\ out = <<>>
    /\ res2 = NoResult
    /\ doc = VNull(DefaultResource)
    /\ other = VNull(DefaultResource)
    /\ call = NoCall

(* The caller appends the piece tk to the input it is composing.           *)
Type(tk) ==
    /\ pc = "input"
    /\ toks' = Append(toks, tk)
    /\ text' = text \o tk
    /\ UNCHANGED <<opts, pc, res, wopts, out, res2, doc, other, call>>

(* Sonnet::parse(text, o)                                                  *)
Parse(o) ==
    /\ pc = "input"
    /\ opts' = o
    /\ res' = parse_impl(text, o)
    /\ pc' = "parsed"
    /\ UNCHANGED <<toks, text, wopts, out, res2, doc, other, call>>

(* Sonnet::dump(res.value(), {.pretty = p})                                     *)
Dump(p) ==
    /\ pc = "parsed"
    /\ res.ok
    /\ wopts' = WriteOptions(p)
    /\ out' = dump(res.v, WriteOptions(p))
    /\ pc' = "dumped"
    /\ UNCHANGED <<toks, text, opts, res, res2, doc, other, call>>

(* Sonnet::parse(out, opts)                                                *)
Reparse ==
    /\ pc = "dumped"
    /\ res2' = parse_impl(out, opts)
    /\ pc' = "reparsed"
    /\ UNCHANGED <<toks, text, opts, res, wopts, out, doc, other, call>>

(* The caller composes at most max pieces, each drawn from Tokens.         *)
TypeFrom(Tokens, max) == \E tk \in Tokens : Len(toks) < max /\ Type(tk)

(* The caller parses under one of the option sets Options.                 *)
ParseWith(Options) == \E o \in Options : Parse(o)

STR_A == <<CH_QUOTE, CH_LOWER_A, CH_QUOTE>>

----------------------------------------------------------------------------
(* Numeric literals, byte by byte, under the default options.              *)

MaxNumToks == 4

NumTokens ==
    { <<CH_MINUS>>, <<CH_PLUS>>, <<CH_DOT>>, <<CH_LOWER_E>>, <<CH_UPPER_E>>,
      <<CH_0>>, <<CH_0 + 1>>, <<CH_0 + 4, CH_0, CH_0>>, <<CH_NUL>> }

TypeNum == \E tk \in NumTokens : Len(toks) < MaxNumToks /\ Type(tk)

ParseNum == Parse(DefaultParseOptions)

NextNum == TypeNum \/ ParseNum

SpecNum == Init /\ [][NextNum]_vars

----------------------------------------------------------------------------
(* The shape of a text read as  -? digits (. digits)? ([eE] [+-]? digits)? *)
(* from the left, as far as it goes: where each part starts and how many   *)
(* digits it has.  Written from the grammar, not from the scanner.         *)

RECURSIVE DigitRun(_, _)
DigitRun(t, i) ==
    IF i > Len(t) \/ ~(t[i] >= CH_0 /\ t[i] <= CH_9) THEN 0 ELSE 1 + DigitRun(t, i + 1)

ByteAt(t, i) == IF i >= 1 /\ i <= Len(t) THEN t[i] ELSE -1

NumShape(t) ==
    LET i0 == IF ByteAt(t, 1) = CH_MINUS THEN 2 ELSE 1
        nInt == DigitRun(t, i0)
        i1 == i0 + nInt
        hasFrac == ByteAt(t, i1) = CH_DOT
        nFrac == IF hasFrac THEN DigitRun(t, i1 + 1) ELSE 0
        i2 == IF hasFrac THEN i1 + 1 + nFrac ELSE i1
        hasExp == ByteAt(t, i2) \in {CH_LOWER_E, CH_UPPER_E}
        i3 == IF hasExp /\ ByteAt(t, i2 + 1) \in {CH_PLUS, CH_MINUS} THEN i2 + 2 ELSE i2 + 1
        nExp == IF hasExp THEN DigitRun(t, i3) ELSE 0
    IN  [i0 |-> i0, nInt |-> nInt, hasFrac |-> hasFrac, nFrac |-> nFrac,
         hasExp |-> hasExp, nExp |-> nExp,
         end |-> IF hasExp THEN i3 + nExp ELSE i2]

IntPartOk(t) ==
    LET sh == NumShape(t) IN sh.nInt >= 1 /\ (ByteAt(t, sh.i0) = CH_0 => sh.nInt = 1)

FracPartOk(t) == LET sh == NumShape(t) IN sh.hasFrac => sh.nFrac >= 1

ExpPartOk(t) == LET sh == NumShape(t) IN sh.hasExp => sh.nExp >= 1

MatchesNumberGrammar(t) ==
    IntPartOk(t) /\ FracPartOk(t) /\ ExpPartOk(t) /\ NumShape(t).end = Len(t) + 1

StartsNumeric(t) == ByteAt(t, 1) = CH_MINUS \/ (ByteAt(t, 1) >= CH_0 /\ ByteAt(t, 1) <= CH_9)

(* The literal denotes zero or a magnitude a finite double can hold.       *)
Representable(t) == from_chars(t).ec = "ok"

Parsed == pc = "parsed"

FailsWith(r, code) == ~r.ok /\ r.err.errc = code

(* C6 as stated: a text starting with '-' or a digit is accepted, as a     *)
(* number, exactly when the whole text matches the number grammar.         *)
C6_GrammarIff ==
    (Parsed /\ StartsNumeric(text)) =>
        ((res.ok /\ res.v.k = "number") <=> MatchesNumberGrammar(text))

(* C6 amended: a text starting with '-' or a digit is accepted exactly     *)
(* when the whole text matches the number grammar and its value is within  *)
(* the range of a double (neither overflow nor underflow to zero); the     *)
(* accepted Value is a number, and a grammar-valid literal outside that    *)
(* range fails with invalid_number.                                        *)
C6_GrammarAndRange ==
    (Parsed /\ StartsNumeric(text)) =>
        /\ res.ok <=> (MatchesNumberGrammar(text) /\ Representable(text))
        /\ res.ok => res.v.k = "number"
        /\ (MatchesNumberGrammar(text) /\ ~Representable(text)) => FailsWith(res, "invalid_number")

C6_Witness ==
    /\ Parsed
    /\ MatchesNumberGrammar(text)
    /\ NumShape(text).hasExp
    /\ ~Representable(text)
    /\ FailsWith(res, "invalid_number")

(* C7: the error code of each malformed numeric literal.  A leading zero   *)
(* followed by a digit, no digit after '.', no digit in the exponent, a    *)
(* byte outside the scanner's terminator set (end of input or NUL, ',',    *)
(* ']', '}', whitespace) directly after the exponent digits, and a leading *)
(* '.' give invalid_number; a leading '+' and a '-' not followed by a      *)
(* digit give unexpected_character.                                        *)
ExpTerminators == {CH_NUL, CH_COMMA, CH_RBRACKET, CH_RBRACE, CH_SPACE, CH_TAB, CH_LF, CH_CR}

LeadingZeroCase(t) ==
    LET sh == NumShape(t) IN StartsNumeric(t) /\ sh.nInt >= 2 /\ ByteAt(t, sh.i0) = CH_0

NoFracDigitCase(t) ==
    LET sh == NumShape(t) IN StartsNumeric(t) /\ IntPartOk(t) /\ sh.hasFrac /\ sh.nFrac = 0

NoExpDigitCase(t) ==
    LET sh == NumShape(t) IN
    StartsNumeric(t) /\ IntPartOk(t) /\ FracPartOk(t) /\ sh.hasExp /\ sh.nExp = 0

AfterExponentCase(t) ==
    LET sh == NumShape(t) IN
    /\ StartsNumeric(t) /\ IntPartOk(t) /\ FracPartOk(t) /\ sh.hasExp /\ sh.nExp >= 1
    /\ sh.end <= Len(t)
    /\ t[sh.end] \notin ExpTerminators

MinusNoDigitCase(t) ==
    ByteAt(t, 1) = CH_MINUS /\ ~(ByteAt(t, 2) >= CH_0 /\ ByteAt(t, 2) <= CH_9)

----------------------------------------------------------------------------
(* Values followed by further input, under the default options.            *)

MaxTrailToks == 4

TrailTokens ==
    { <<CH_0 + 1>>, STR_A, LIT_NULL, <<CH_LBRACKET>>, <<CH_RBRACKET>>, <<CH_COMMA>>,
      <<CH_SPACE>>, <<CH_LF>>, <<CH_LOWER_A>>, <<CH_NUL>> }

NextTrail == TypeFrom(TrailTokens, MaxTrailToks) \/ ParseWith({DefaultParseOptions})

SpecTrail == Init /\ [][NextTrail]_vars

JsonWhitespace == {CH_SPACE, CH_TAB, CH_LF, CH_CR}

(* t is a complete JSON value (its first i bytes), then at least one       *)
(* whitespace byte, then a byte that is not whitespace (at j), then        *)
(* anything.                                                               *)
TrailingDataCase(t) ==
    \E i \in 1..Len(t) : \E j \in (i + 2)..Len(t) :
        /\ parse_impl(SubSeq(t, 1, i), DefaultParseOptions).ok
        /\ \A k \in (i + 1)..(j - 1) : t[k] \in JsonWhitespace
        /\ t[j] \notin JsonWhitespace

(* C5: under the default options a complete value followed by whitespace   *)
(* and then a non-whitespace byte fails with trailing_characters and       *)
(* yields no Value.                                                        *)
C5_TrailingData ==
    (Parsed /\ opts = DefaultParseOptions /\ TrailingDataCase(text)) =>
        FailsWith(res, "trailing_characters")

C5_Witness ==
    /\ Parsed
    /\ TrailingDataCase(text)
    /\ FailsWith(res, "trailing_characters")
    /\ res.err.offset >= 2
    /\ res.err.offset < Len(text)

----------------------------------------------------------------------------
(* Positions of a text, read without the parser: inside or outside a       *)
(* string literal, the nearest bytes that are not whitespace, and the text *)
(* with one byte removed.                                                  *)

RECURSIVE StrScan(_, _, _, _)
(* ins tells whether byte k lies inside a string literal; the result tells *)
(* it of byte i.                                                           *)
StrScan(t, k, i, ins) ==
    IF k >= i THEN ins
    ELSE IF ins /\ t[k] = CH_BACKSLASH THEN (IF k + 1 >= i THEN TRUE ELSE StrScan(t, k + 2, i, TRUE))
    ELSE IF t[k] = CH_QUOTE THEN StrScan(t, k + 1, i, ~ins)
    ELSE StrScan(t, k + 1, i, ins)

InString(t, i) == StrScan(t, 1, i, FALSE)

RECURSIVE PrevNonWs(_, _)
PrevNonWs(t, i) ==
    IF i <= 1 THEN 0
    ELSE IF t[i - 1] \in JsonWhitespace THEN PrevNonWs(t, i - 1) ELSE i - 1

RECURSIVE NextNonWs(_, _)
NextNonWs(t, i) ==
    IF i >= Len(t) THEN 0
    ELSE IF t[i + 1] \in JsonWhitespace THEN NextNonWs(t, i + 1) ELSE i + 1

Without(t, i) == SubSeq(t, 1, i - 1) \o SubSeq(t, i + 1, Len(t))

(* Byte i of t is a comma outside strings that follows an element or       *)
(* member and is followed, after optional whitespace, by the closing byte. *)
TrailingCommaAt(t, i, open, close) ==
    /\ t[i] = CH_COMMA
    /\ ~InString(t, i)
    /\ NextNonWs(t, i) # 0
    /\ t[NextNonWs(t, i)] = close
    /\ PrevNonWs(t, i) # 0
    /\ t[PrevNonWs(t, i)] \notin {open, CH_COMMA}

(* What a trailing comma at i is to do to the parse of the text, given     *)
(* that the text without it parses under the same options: rejected with   *)
(* code when the option is off, the same value when it is on.              *)
TrailingCommaPolicy(i, code) ==
    parse_impl(Without(text, i), opts).ok =>
        IF opts.allow_trailing_commas
        THEN res.ok /\ value_eq(res.v, parse_impl(Without(text, i), opts).v)
        ELSE FailsWith(res, code)

----------------------------------------------------------------------------
(* Arrays with and without trailing commas, strict and relaxed.            *)

MaxArrToks == 6

STR_COMMA == <<CH_QUOTE, CH_COMMA, CH_QUOTE>>

ArrTokens ==
    { <<CH_LBRACKET>>, <<CH_RBRACKET>>, <<CH_COMMA>>, <<CH_SPACE>>, <<CH_0 + 1>>, STR_COMMA }

CommaOptions == { DefaultParseOptions, ParseOptions(FALSE, TRUE, 0) }

NextArr == TypeFrom(ArrTokens, MaxArrToks) \/ ParseWith(CommaOptions)

SpecArr == Init /\ [][NextArr]_vars

----------------------------------------------------------------------------
(* Objects with and without trailing commas, strict and relaxed.           *)

MaxObjToks == 5

KEY_A == <<CH_QUOTE, CH_LOWER_A, CH_QUOTE, CH_COLON>>

ObjTokens ==
    { <<CH_LBRACE>>, <<CH_RBRACE>>, <<CH_COMMA>>, <<CH_SPACE>>, <<CH_0 + 1>>, KEY_A }

NextObj == TypeFrom(ObjTokens, MaxObjToks) \/ ParseWith(CommaOptions)

SpecObj == Init /\ [][NextObj]_vars

(* C10: objects follow the policy of arrays: an object text with a comma   *)
(* directly before the closing brace fails with trailing_characters, the   *)
(* code of the array case, when allow_trailing_commas is false, and parses *)
(* to the same object as the text without that comma when it is true.      *)
C10_ObjectTrailingComma ==
    Parsed =>
        \A i \in 1..Len(text) :
            TrailingCommaAt(text, i, CH_LBRACE, CH_RBRACE) =>
                TrailingCommaPolicy(i, "trailing_characters")

----------------------------------------------------------------------------
(* Nested arrays and objects under a depth limit.                          *)

MaxDepthToks == 6

MaxDepthLimit == 2

OPEN_MEMBER == <<CH_LBRACE>> \o KEY_A

DepthTokens ==
    { <<CH_LBRACKET>>, <<CH_RBRACKET>>, OPEN_MEMBER, <<CH_RBRACE>>, <<CH_0 + 1>> }

DepthOptions == { ParseOptions(FALSE, FALSE, n) : n \in 0..MaxDepthLimit }

NextDepth == TypeFrom(DepthTokens, MaxDepthToks) \/ ParseWith(DepthOptions)

SpecDepth == Init /\ [][NextDepth]_vars

(* Brackets of a text, counted without the parser.                         *)
IsOpen(t, k) == t[k] \in {CH_LBRACKET, CH_LBRACE} /\ ~InString(t, k)

IsClose(t, k) == t[k] \in {CH_RBRACKET, CH_RBRACE} /\ ~InString(t, k)

RECURSIVE OpenOver(_, _, _, _)
(* The position of the first opening bracket, from k on with open          *)
(* containers open, that becomes container number n + 1; 0 if none does.   *)
OpenOver(t, k, open, n) ==
    IF k > Len(t) THEN 0
    ELSE IF IsOpen(t, k) THEN (IF open + 1 > n THEN k ELSE OpenOver(t, k + 1, open + 1, n))
    ELSE IF IsClose(t, k) THEN OpenOver(t, k + 1, open - 1, n)
    ELSE OpenOver(t, k + 1, open, n)

FirstOpenOver(t, n) == OpenOver(t, 1, 0, n)

RECURSIVE ValueDepth(_)
RECURSIVE MaxChildDepth(_, _)
MaxChildDepth(children, i) ==
    IF i > Len(children) THEN 0
    ELSE LET here == ValueDepth(children[i])
             rest == MaxChildDepth(children, i + 1)
         IN  IF here > rest THEN here ELSE rest

ValueDepth(v) ==
    CASE v.k = "array" -> 1 + MaxChildDepth(v.a, 1)
      [] v.k = "object" -> 1 + MaxChildDepth([i \in 1..Len(v.o) |-> v.o[i].val], 1)
      [] OTHER -> 0

Unlimited(o) == [o EXCEPT !.max_depth = 0]

(* C4: with max_depth = N > 0 a text that is valid without the limit and   *)
(* nests to at most N parses, to the same value; a text whose first error  *)
(* without the limit, if any, lies behind the opening bracket that becomes *)
(* the (N+1)-th open container fails with depth_limit_exceeded; no         *)
(* returned Value nests deeper than N.  With max_depth = 0 no parse fails  *)
(* with depth_limit_exceeded.                                              *)
C4_DepthLimit ==
    Parsed =>
        /\ opts.max_depth > 0 =>
              /\ (parse_impl(text, Unlimited(opts)).ok /\ FirstOpenOver(text, opts.max_depth) = 0)
                    => (res.ok /\ value_eq(res.v, parse_impl(text, Unlimited(opts)).v))
              /\ ( /\ FirstOpenOver(text, opts.max_depth) # 0
                   /\ \/ parse_impl(text, Unlimited(opts)).ok
                      \/ parse_impl(text, Unlimited(opts)).err.offset
                            > FirstOpenOver(text, opts.max_depth) - 1 )
                    => FailsWith(res, "depth_limit_exceeded")
              /\ res.ok => ValueDepth(res.v) <= opts.max_depth
        /\ opts.max_depth = 0 => ~FailsWith(res, "depth_limit_exceeded")

C4_Witness ==
    /\ Parsed
    /\ opts.max_depth = 2
    /\ parse_impl(text, Unlimited(opts)).ok
    /\ FirstOpenOver(text, 2) = 3
    /\ FailsWith(res, "depth_limit_exceeded")
    /\ res.err.offset = 2

----------------------------------------------------------------------------
(* Arbitrary, mostly malformed, inputs under several option sets.          *)

MaxPosToks == 4

PosTokens ==
    { <<CH_LBRACKET>>, <<CH_LBRACE>>, <<CH_QUOTE>>, <<CH_BACKSLASH>>,
      <<CH_BACKSLASH, CH_LOWER_U>>, <<CH_SLASH>>, <<CH_STAR>>, <<CH_0 + 1>>,
      <<CH_MINUS>>, <<CH_LOWER_T>>, <<CH_LF>> }

PosOptions ==
    { DefaultParseOptions, ParseOptions(TRUE, FALSE, 0),
      ParseOptions(FALSE, TRUE, 1), ParseOptions(TRUE, TRUE, 1) }

NextPos == TypeFrom(PosTokens, MaxPosToks) \/ ParseWith(PosOptions)

SpecPos == Init /\ [][NextPos]_vars

(* C3: the error of a failed parse lies within the input: 0 <= offset <=   *)
(* len(s), line >= 1, column >= 1; the cursor never passes the end.        *)
C3_ErrorPosition ==
    Parsed =>
        /\ res.s.idx <= Len(text)
        /\ ~res.ok =>
              /\ res.err.offset >= 0
              /\ res.err.offset <= Len(text)
              /\ res.err.line >= 1
              /\ res.err.column >= 1

C3_Witness ==
    /\ Parsed
    /\ ~res.ok
    /\ Len(text) >= 3
    /\ res.err.offset = Len(text)
    /\ res.err.line = 2
    /\ opts.allow_comments

----------------------------------------------------------------------------
(* Texts with comments, with comments allowed and not.                     *)

MaxCmtToks == 5

BLOCK_OPEN == <<CH_SLASH, CH_STAR>>
BLOCK_CLOSE == <<CH_STAR, CH_SLASH>>
LINE_OPEN == <<CH_SLASH, CH_SLASH>>
NUM_1E5 == <<CH_0 + 1, CH_LOWER_E, CH_0 + 5>>

CmtTokens ==
    { BLOCK_OPEN, BLOCK_CLOSE, LINE_OPEN, <<CH_LF>>, NUM_1E5, <<CH_0 + 1>>,
      OPEN_MEMBER, <<CH_RBRACE>>, <<CH_QUOTE>> \o BLOCK_OPEN \o <<CH_QUOTE>> }

CmtOptions == { DefaultParseOptions, ParseOptions(TRUE, FALSE, 0) }

NextCmt == TypeFrom(CmtTokens, MaxCmtToks) \/ ParseWith(CmtOptions)

SpecCmt == Init /\ [][NextCmt]_vars

RECURSIVE CommentScan(_, _, _, _, _)
(* The text with every comment outside string literals overwritten by      *)
(* spaces (the newline that ends a line comment stays), read without the   *)
(* parser; unterm is the position where a block comment that is never      *)
(* closed starts, 0 if there is none.                                      *)
CommentScan(t, k, mode, acc, start) ==
    IF k > Len(t)
    THEN [blank |-> acc, unterm |-> IF mode = "block" THEN start ELSE 0]
    ELSE CASE mode = "code" ->
                IF t[k] = CH_QUOTE THEN CommentScan(t, k + 1, "string", Append(acc, t[k]), 0)
                ELSE IF t[k] = CH_SLASH /\ k < Len(t) /\ t[k + 1] = CH_SLASH
                THEN CommentScan(t, k + 2, "line", acc \o <<CH_SPACE, CH_SPACE>>, 0)
                ELSE IF t[k] = CH_SLASH /\ k < Len(t) /\ t[k + 1] = CH_STAR
                THEN CommentScan(t, k + 2, "block", acc \o <<CH_SPACE, CH_SPACE>>, k)
                ELSE CommentScan(t, k + 1, "code", Append(acc, t[k]), 0)
           [] mode = "string" ->
                IF t[k] = CH_BACKSLASH /\ k < Len(t)
                THEN CommentScan(t, k + 2, "string", acc \o <<t[k], t[k + 1]>>, 0)
                ELSE IF t[k] = CH_QUOTE THEN CommentScan(t, k + 1, "code", Append(acc, t[k]), 0)
                ELSE CommentScan(t, k + 1, "string", Append(acc, t[k]), 0)
           [] mode = "line" ->
                IF t[k] = CH_LF THEN CommentScan(t, k + 1, "code", Append(acc, t[k]), 0)
                ELSE CommentScan(t, k + 1, "line", Append(acc, CH_SPACE), 0)
           [] mode = "block" ->
                IF t[k] = CH_STAR /\ k < Len(t) /\ t[k + 1] = CH_SLASH
                THEN CommentScan(t, k + 2, "code", acc \o <<CH_SPACE, CH_SPACE>>, 0)
                ELSE CommentScan(t, k + 1, "block", Append(acc, CH_SPACE), start)

Blanked(t) == CommentScan(t, 1, "code", <<>>, 0).blank

UntermBlock(t) == CommentScan(t, 1, "code", <<>>, 0).unterm

HasComment(t) == Blanked(t) # t

(* The text before an unterminated block comment, read with whitespace in  *)
(* the comment's place, ends between tokens: it is a complete value or     *)
(* only lacks input at that place.                                         *)
OpenEnded(t, o) ==
    LET r == parse_impl(Blanked(SubSeq(t, 1, UntermBlock(t) - 1)) \o <<CH_SPACE>>, o)
    IN  r.ok \/ (r.err.errc = "unexpected_end_of_input" /\ r.err.offset = UntermBlock(t))

(* C8: with allow_comments = false every text with a comment outside a     *)
(* string literal fails; with allow_comments = true a text whose comments  *)
(* are terminated parses like the text with whitespace in their place, an  *)
(* object with comments around its single member to an object of size 1;   *)
(* an unterminated block comment between tokens fails with                 *)
(* unexpected_end_of_input.                                                *)
C8_CommentGating ==
    Parsed =>
        /\ (~opts.allow_comments /\ HasComment(text)) => ~res.ok
        /\ ( /\ opts.allow_comments
             /\ UntermBlock(text) = 0
             /\ parse_impl(Blanked(text), opts).ok )
              => (res.ok /\ value_eq(res.v, parse_impl(Blanked(text), opts).v))
        /\ (opts.allow_comments /\ UntermBlock(text) # 0 /\ OpenEnded(text, opts))
              => FailsWith(res, "unexpected_end_of_input")

----------------------------------------------------------------------------
(* Parse, dump, parse again under the relaxed options (test/tests.cpp,     *)
(* "Parse/Dump/Parse Property on Random Text").                            *)

MaxRelaxedToks == 5

RelaxedOptions == ParseOptions(TRUE, TRUE, 0)

(* -0,1e22,                                                                *)
NUMS_A == <<CH_MINUS, CH_0, CH_COMMA, CH_0 + 1, CH_LOWER_E, CH_0 + 2, CH_0 + 2, CH_COMMA>>

(* /*c*/12.50e4,0.001,     with the comment opened by BLOCK_OPEN           *)
NUMS_B ==
    BLOCK_OPEN \o <<CH_LOWER_A>> \o BLOCK_CLOSE
    \o <<CH_0 + 1, CH_0 + 2, CH_DOT, CH_0 + 5, CH_0, CH_LOWER_E, CH_0 + 4, CH_COMMA>>
    \o <<CH_0, CH_DOT, CH_0, CH_0, CH_0 + 1, CH_COMMA>>

(* "\"\\\n\u0001\u00e9\ud83d\ude00",   a string written with escapes       *)
STR_ESC ==
    <<CH_QUOTE, CH_BACKSLASH, CH_QUOTE, CH_BACKSLASH, CH_BACKSLASH, CH_BACKSLASH, CH_LOWER_N>>
    \o <<CH_BACKSLASH, CH_LOWER_U, CH_0, CH_0, CH_0, CH_0 + 1>>
    \o <<CH_BACKSLASH, CH_LOWER_U, CH_0, CH_0, CH_LOWER_E, CH_0 + 9>>
    \o <<CH_BACKSLASH, CH_LOWER_U, CH_LOWER_A + 3, CH_0 + 8, CH_0 + 3, CH_LOWER_A + 3>>
    \o <<CH_BACKSLASH, CH_LOWER_U, CH_LOWER_A + 3, CH_LOWER_E, CH_0, CH_0>>
    \o <<CH_QUOTE, CH_COMMA>>

(* "b\t":1.5e-7,          a member whose key sorts behind "a"              *)
MEMBER_B ==
    <<CH_QUOTE, CH_LOWER_B, CH_BACKSLASH, CH_LOWER_T, CH_QUOTE, CH_COLON>>
    \o <<CH_0 + 1, CH_DOT, CH_0 + 5, CH_LOWER_E, CH_MINUS, CH_0 + 7, CH_COMMA>>

RelaxedTokens ==
    { <<CH_LBRACKET>>, <<CH_RBRACKET>>, <<CH_LBRACE>>, <<CH_RBRACE>>, KEY_A,
      NUMS_A, NUMS_B, STR_ESC, MEMBER_B }

NextRelaxed ==
    \/ TypeFrom(RelaxedTokens, MaxRelaxedToks)
    \/ ParseWith({RelaxedOptions})
    \/ \E p \in BOOLEAN : Dump(p)
    \/ Reparse

SpecRelaxed == Init /\ [][NextRelaxed]_vars

Reparsed == pc = "reparsed"

(* C2: when a text parses under allow_comments and allow_trailing_commas   *)
(* to a Value v, the dump of v, compact or pretty, parses under the same   *)
(* options to a Value equal to v.                                          *)
C2_ParseDumpParse ==
    Reparsed => (res2.ok /\ value_eq(res2.v, res.v))

C2_Witness ==
    /\ Reparsed
    /\ wopts.pretty
    /\ res.v.k = "object"
    /\ Len(res.v.o) = 2
    /\ res.v.o[1].val.k = "string"
    /\ res.v.o[2].val.k = "number"
    /\ out # text
    /\ res2.ok

----------------------------------------------------------------------------
(* Building a tree through the DOM API (src/value.cpp) and round-tripping  *)
(* it (test/tests.cpp, "DOM Dump/parse Round-Trip").                       *)

MaxDomSize == 2
MaxDomDepth == 2

(* A memory resource other than std::pmr::get_default_resource().          *)
CustomResource == "custom"

Resources == {DefaultResource, CustomResource}

(* An accessor that empties the Value whatever its kind.                   *)
as_array_emptying(v) == VArr(<<>>, v.res)

(* value::as_array(): a value that is no array becomes the empty array.    *)
as_array(v) == IF v.k = "array" THEN v ELSE VArr(<<>>, v.res)

(* value::as_object(): a value that is no object becomes the empty object. *)
as_object(v) == IF v.k = "object" THEN v ELSE VObj(<<>>, v.res)

(* std::vector::resize without the test idx >= arr.size() before it.       *)
resize_unguarded(arr, n, fill) ==
    IF Len(arr) >= n THEN SubSeq(arr, 1, n)
    ELSE arr \o [i \in 1..(n - Len(arr)) |-> fill]

(* arr.resize(n, fill): grows arr to n elements with copies of fill.       *)
resize(arr, n, fill) ==
    IF Len(arr) >= n THEN arr
    ELSE arr \o [i \in 1..(n - Len(arr)) |-> fill]

(* v[idx] = val: operator[](size_t) grows the array with value{m_MemRes},  *)
(* then the move assignment gives the slot val's storage and resource.     *)
index_assign(v, idx, val) ==
    LET grown(arr) == [arr EXCEPT !.a = [resize(arr.a, idx + 1, VNull(v.res))
                                           EXCEPT ![idx + 1] = val]]
    IN  grown(as_array(v))

(* v[key] = val: operator[](string_view) inserts value{m_MemRes} when the  *)
(* key is absent, then the move assignment replaces the entry's value.     *)
key_assign(v, key, val) ==
    LET stored(obj) == [obj EXCEPT !.o = map_assign(obj.o, key, val)]
    IN  stored(as_object(v))

(* v.as_array().emplace_back(val)                                          *)
emplace_back(v, val) ==
    LET appended(arr) == [arr EXCEPT !.a = Append(arr.a, val)]
    IN  appended(as_array(v))

(* The byte 0xFF, which no well-formed UTF-8 text contains.                *)
STR_FF == <<255>>

(* U+00E9 in UTF-8.                                                        *)
STR_E_ACUTE == <<195, 169>>

(* The scalar values the constructors build with memory resource r.        *)
Scalars(r) ==
    { VNull(r), VBool(TRUE, r), VNum(Double(TRUE, <<1, 5>>, 0), r),
      VStr(STR_E_ACUTE, r), VStr(STR_FF, r) }

DomValues == UNION { Scalars(r) : r \in Resources }

DomKeys == { <<CH_LOWER_A>>, STR_FF }

(* doc = val                                                               *)
Construct(val) ==
    /\ pc = "input"
    /\ doc' = val
    /\ UNCHANGED <<toks, text, opts, pc, res, wopts, out, res2, other, call>>

(* doc.as_array().emplace_back(val)                                        *)
EmplaceBack(val) ==
    /\ pc = "input"
    /\ Len(as_array(doc).a) < MaxDomSize
    /\ doc' = emplace_back(doc, val)
    /\ UNCHANGED <<toks, text, opts, pc, res, wopts, out, res2, other, call>>

(* doc[idx] = val                                                          *)
IndexAssign(idx, val) ==
    /\ pc = "input"
    /\ doc' = index_assign(doc, idx, val)
    /\ UNCHANGED <<toks, text, opts, pc, res, wopts, out, res2, other, call>>

(* doc[key] = val                                                          *)
KeyAssign(key, val) ==
    /\ pc = "input"
    /\ doc' = key_assign(doc, key, val)
    /\ UNCHANGED <<toks, text, opts, pc, res, wopts, out, res2, other, call>>

(* value parent{r}; parent.as_array().emplace_back(std::move(doc));        *)
(* doc = std::move(parent);                                                *)
Nest(r) ==
    /\ pc = "input"
    /\ ValueDepth(doc) < MaxDomDepth
    /\ doc' = emplace_back(VNull(r), doc)
    /\ UNCHANGED <<toks, text, opts, pc, res, wopts, out, res2, other, call>>

(* Sonnet::dump(doc, {.pretty = p})                                        *)
DumpDoc(p) ==
    /\ pc = "input"
    /\ wopts' = WriteOptions(p)
    /\ out' = dump(doc, WriteOptions(p))
    /\ pc' = "dumped"
    /\ UNCHANGED <<toks, text, opts, res, res2, doc, other, call>>

NextDom ==
    \/ \E val \in DomValues : Construct(val)
    \/ \E val \in DomValues : EmplaceBack(val)
    \/ \E idx \in 0..(MaxDomSize - 1), val \in DomValues : IndexAssign(idx, val)
    \/ \E key \in DomKeys, val \in DomValues : KeyAssign(key, val)
    \/ \E r \in Resources : Nest(r)
    \/ \E p \in BOOLEAN : DumpDoc(p)
    \/ Reparse

SpecDom == Init /\ [][NextDom]_vars

RECURSIVE Nodes(_)
RECURSIVE NodesOf(_, _)
(* The nodes of the values children[i], children[i + 1], ...               *)
NodesOf(children, i) ==
    IF i > Len(children) THEN <<>>
    ELSE Nodes(children[i]) \o NodesOf(children, i + 1)

(* v and all its descendants.                                              *)
Nodes(v) ==
    <<v>> \o (CASE v.k = "array" -> NodesOf(v.a, 1)
                [] v.k = "object" -> NodesOf([i \in 1..Len(v.o) |-> v.o[i].val], 1)
                [] OTHER -> <<>>)

AllNodes(v, P(_)) == \A i \in 1..Len(Nodes(v)) : P(Nodes(v)[i])

NoNanOrInfinity(v) == v.k = "number" => isfinite(v.n)

WellFormedText(v) ==
    /\ v.k = "string" => is_valid_utf8(v.s)
    /\ v.k = "object" => \A i \in 1..Len(v.o) : is_valid_utf8(v.o[i].key)

OnDefaultResource(v) == v.res = DefaultResource

(* C1: for every tree built through the DOM API without a NaN or an        *)
(* infinity, whatever bytes its strings and keys hold, the dump of the     *)
(* tree, compact or pretty, parses and the parsed Value equals the tree.   *)
C1_RoundTrip ==
    (Reparsed /\ AllNodes(doc, NoNanOrInfinity))
        => (res2.ok /\ value_eq(res2.v, doc))

(* The round trip on the trees whose strings and keys are well-formed      *)
(* UTF-8 and whose nodes all use the default memory resource.              *)
RoundTripOfDefaultUtf8Trees ==
    (Reparsed /\ AllNodes(doc, WellFormedText) /\ AllNodes(doc, OnDefaultResource))
        => (res2.ok /\ value_eq(res2.v, doc))

----------------------------------------------------------------------------
(* Object texts in which a key occurs several times (test/tests.cpp,       *)
(* "RFC8259 - Object Duplicate Names Last-Wins Semantics").                *)

MaxDupToks == 5

(* The member "written":n, behind a comma when it is not the first one.    *)
MemberText(first, written, n) ==
    (IF first THEN <<>> ELSE <<CH_COMMA>>)
    \o <<CH_QUOTE>> \o written \o <<CH_QUOTE, CH_COLON, CH_0 + n>>

(* The members of the texts: "a":1  ,"a":2  ,"\u0061":3  ,"b":4  ,"b":5    *)
(* with the key each one decodes to.                                       *)
DupMembers ==
    { [first |-> TRUE, written |-> <<CH_LOWER_A>>, key |-> <<CH_LOWER_A>>, n |-> 1],
      [first |-> FALSE, written |-> <<CH_LOWER_A>>, key |-> <<CH_LOWER_A>>, n |-> 2],
      [first |-> FALSE, written |-> <<CH_BACKSLASH, CH_LOWER_U, CH_0, CH_0, CH_0 + 6, CH_0 + 1>>,
       key |-> <<CH_LOWER_A>>, n |-> 3],
      [first |-> FALSE, written |-> <<CH_LOWER_B>>, key |-> <<CH_LOWER_B>>, n |-> 4],
      [first |-> FALSE, written |-> <<CH_LOWER_B>>, key |-> <<CH_LOWER_B>>, n |-> 5] }

DupTokens ==
    { <<CH_LBRACE>>, <<CH_RBRACE>> }
    \cup { MemberText(m.first, m.written, m.n) : m \in DupMembers }

NextDup ==
    \/ TypeFrom(DupTokens, MaxDupToks)
    \/ ParseWith({DefaultParseOptions})

SpecDup == Init /\ [][NextDup]_vars

(* The member a piece writes.                                              *)
MemberOf(tk) == CHOOSE m \in DupMembers : MemberText(m.first, m.written, m.n) = tk

IsMember(tk) == \E m \in DupMembers : MemberText(m.first, m.written, m.n) = tk

MemberKey(tk) == MemberOf(tk).key

MemberNumber(tk) == MemberOf(tk).n

(* The pieces form {m1,m2,...,mk} with k >= 1.                             *)
IsMemberList(tt) ==
    /\ Len(tt) >= 3
    /\ tt[1] = <<CH_LBRACE>>
    /\ tt[Len(tt)] = <<CH_RBRACE>>
    /\ \A i \in 2..(Len(tt) - 1) : IsMember(tt[i]) /\ (MemberOf(tt[i]).first <=> i = 2)

KeysWritten(tt) == { MemberKey(tt[i]) : i \in 2..(Len(tt) - 1) }

LastOccurrence(tt, key) ==
    CHOOSE i \in 2..(Len(tt) - 1) :
        /\ MemberKey(tt[i]) = key
        /\ \A j \in (i + 1)..(Len(tt) - 1) : MemberKey(tt[j]) # key

HasDuplicateKey(tt) ==
    \E i, j \in 2..(Len(tt) - 1) : i < j /\ MemberKey(tt[i]) = MemberKey(tt[j])

EntriesOf(v, key) == { i \in 1..Len(v.o) : v.o[i].key = key }

(* C11: an object text with repeated keys (compared after escape decoding) *)
(* parses to an object with exactly one entry per distinct key, holding    *)
(* the value of the key's last occurrence in the text.                     *)
C11_LastWins ==
    (Parsed /\ IsMemberList(toks)) =>
        /\ res.ok
        /\ res.v.k = "object"
        /\ Len(res.v.o) = Cardinality(KeysWritten(toks))
        /\ \A key \in KeysWritten(toks) :
               /\ Cardinality(EntriesOf(res.v, key)) = 1
               /\ \A i \in EntriesOf(res.v, key) :
                      value_eq(res.v.o[i].val,
                               VNum(Double(FALSE, <<MemberNumber(toks[LastOccurrence(toks, key)])>>, 0),
                                    DefaultResource))

C11_Witness ==
    /\ Parsed
    /\ IsMemberList(toks)
    /\ Len(toks) = MaxDupToks
    /\ MemberNumber(toks[3]) = 4
    /\ MemberNumber(toks[4]) = 3
    /\ res.ok
    /\ Len(res.v.o) = 2

----------------------------------------------------------------------------
(* Strings written with \u escapes of surrogates (test/tests.cpp, "Valid   *)
(* Surrogate Pair Parses", "Unpaired Surrogate Rejected", "RFC8259 -       *)
(* Invalid Unicode Escapes").                                              *)

MaxSurToks == 5

HIGH_FIRST == 55296
HIGH_LAST == 56319
LOW_FIRST == 56320
LOW_LAST == 57343

(* The text \uXXXX of a 16-bit code, in upper-case hex digits.             *)
UnicodeEscape(code) ==
    <<CH_BACKSLASH, CH_LOWER_U, HEX[(code \div 4096) + 1], HEX[((code \div 256) % 16) + 1],
      HEX[((code \div 16) % 16) + 1], HEX[(code % 16) + 1]>>

(* The first and last code of each surrogate range and their neighbours.   *)
SurCodes == {HIGH_FIRST, HIGH_LAST, LOW_FIRST, LOW_LAST, HIGH_FIRST - 1, LOW_LAST + 1}

SurTokens ==
    { <<CH_QUOTE>>, <<CH_LOWER_A>>, <<CH_BACKSLASH>> }
    \cup { UnicodeEscape(code) : code \in SurCodes }

NextSur ==
    \/ TypeFrom(SurTokens, MaxSurToks)
    \/ ParseWith({DefaultParseOptions})

SpecSur == Init /\ [][NextSur]_vars

IsEscape(tk) == \E code \in SurCodes : UnicodeEscape(code) = tk

EscapeCode(tk) == CHOOSE code \in SurCodes : UnicodeEscape(code) = tk

IsHigh(tk) == IsEscape(tk) /\ EscapeCode(tk) >= HIGH_FIRST /\ EscapeCode(tk) <= HIGH_LAST

IsLow(tk) == IsEscape(tk) /\ EscapeCode(tk) >= LOW_FIRST /\ EscapeCode(tk) <= LOW_LAST

(* 0x10000 + ((hi - 0xD800) << 10) + (lo - 0xDC00)                         *)
PairCodePoint(hi, lo) == 65536 + (hi - HIGH_FIRST) * 1024 + (lo - LOW_FIRST)

Utf8Of4(cp) ==
    <<240 + (cp \div 262144), 128 + ((cp \div 4096) % 64), 128 + ((cp \div 64) % 64),
      128 + (cp % 64)>>

Utf8Of3(cp) == <<224 + (cp \div 4096), 128 + ((cp \div 64) % 64), 128 + (cp % 64)>>

RECURSIVE SurScan(_, _, _)
(* Reads the pieces tt[i], tt[i + 1], ... of an opened string: "bad" at a  *)
(* surrogate escape that is not part of a pair, "closed" with the decoded  *)
(* bytes at the closing quote, "open" when the pieces end first, "other"   *)
(* at a backslash piece.                                                   *)
SurScan(tt, i, acc) ==
    IF i > Len(tt) THEN [kind |-> "open", s |-> acc, at |-> i]
    ELSE IF tt[i] = <<CH_QUOTE>> THEN [kind |-> "closed", s |-> acc, at |-> i]
    ELSE IF tt[i] = <<CH_LOWER_A>> THEN SurScan(tt, i + 1, Append(acc, CH_LOWER_A))
    ELSE IF tt[i] = <<CH_BACKSLASH>> THEN [kind |-> "other", s |-> acc, at |-> i]
    ELSE IF IsHigh(tt[i])
    THEN IF i + 1 <= Len(tt) /\ IsLow(tt[i + 1])
         THEN SurScan(tt, i + 2,
                      acc \o Utf8Of4(PairCodePoint(EscapeCode(tt[i]), EscapeCode(tt[i + 1]))))
         ELSE [kind |-> "bad", s |-> acc, at |-> i]
    ELSE IF IsLow(tt[i]) THEN [kind |-> "bad", s |-> acc, at |-> i]
    ELSE SurScan(tt, i + 1, acc \o Utf8Of3(EscapeCode(tt[i])))

SurString(tt) == SurScan(tt, 2, <<>>)

OpensString(tt) == Len(tt) >= 1 /\ tt[1] = <<CH_QUOTE>>

(* C12: in a string, a high-surrogate escape directly followed by a        *)
(* low-surrogate escape decodes to 0x10000 + ((hi - 0xD800) << 10) +       *)
(* (lo - 0xDC00), a code point of 0x10000..0x10FFFF appended as its four   *)
(* UTF-8 bytes; a high surrogate without such a follower and a low         *)
(* surrogate without a high one before it fail with                        *)
(* invalid_unicode_escape.                                                 *)
C12_SurrogatePairs ==
    (Parsed /\ OpensString(toks)) =>
        /\ SurString(toks).kind = "bad" => FailsWith(res, "invalid_unicode_escape")
        /\ (SurString(toks).kind = "closed" /\ SurString(toks).at = Len(toks)) =>
               /\ res.ok
               /\ res.v.k = "string"
               /\ res.v.s = SurString(toks).s
        /\ \A hi \in SurCodes, lo \in SurCodes :
               (hi >= HIGH_FIRST /\ hi <= HIGH_LAST /\ lo >= LOW_FIRST /\ lo <= LOW_LAST) =>
                   (PairCodePoint(hi, lo) >= 65536 /\ PairCodePoint(hi, lo) <= 1114111)

C12_Witness ==
    /\ Parsed
    /\ toks = <<<<CH_QUOTE>>, UnicodeEscape(HIGH_LAST), UnicodeEscape(LOW_LAST),
                UnicodeEscape(LOW_LAST + 1), <<CH_QUOTE>>>>
    /\ res.ok
    /\ res.v.s = <<244, 143, 191, 191, 238, 128, 128>>

----------------------------------------------------------------------------
(* Dumping trees that hold NaN and infinities (test/tests.cpp, "NaN and    *)
(* Inf Serialize as Null").                                                *)

(* Values of the constructors, among them the three non-finite numbers.    *)
NonFiniteValues ==
    { VNum(NaN, DefaultResource), VNum(Infinity(FALSE), DefaultResource),
      VNum(Infinity(TRUE), DefaultResource), VNum(Double(TRUE, <<1, 5>>, 0), DefaultResource) }

NextNonFinite ==
    \/ \E val \in NonFiniteValues : Construct(val)
    \/ \E val \in NonFiniteValues : EmplaceBack(val)
    \/ \E key \in {<<CH_LOWER_A>>, <<CH_LOWER_B>>}, val \in NonFiniteValues : KeyAssign(key, val)
    \/ Nest(DefaultResource)
    \/ \E p \in BOOLEAN : DumpDoc(p)

SpecNonFinite == Init /\ [][NextNonFinite]_vars

RECURSIVE Nullified(_)
(* v with every number that is NaN or an infinity replaced by Null.        *)
Nullified(v) ==
    CASE v.k = "number" -> IF v.n.cls = "finite" THEN v ELSE VNull(v.res)
      [] v.k = "array" -> [v EXCEPT !.a = [i \in 1..Len(v.a) |-> Nullified(v.a[i])]]
      [] v.k = "object" ->
           [v EXCEPT !.o = [i \in 1..Len(v.o) |->
                               [key |-> v.o[i].key, val |-> Nullified(v.o[i].val)]]]
      [] OTHER -> v

HasNonFinite(v) == \E i \in 1..Len(Nodes(v)) : Nodes(v)[i].k = "number" /\ Nodes(v)[i].n.cls # "finite"

Occurs(pat, t) == \E i \in 1..(Len(t) - Len(pat) + 1) : SubSeq(t, i, i + Len(pat) - 1) = pat

Dumped == pc = "dumped"

(* C13: a number holding NaN, +Infinity or -Infinity is written as null    *)
(* wherever it occurs in the tree, so the dump, compact or pretty, is the  *)
(* dump of the tree with these numbers replaced by Null, and contains no   *)
(* nan or inf token.                                                       *)
C13_NonFiniteAsNull ==
    Dumped =>
        /\ out = dump(Nullified(doc), wopts)
        /\ ~Occurs(<<CH_LOWER_N, CH_LOWER_A, CH_LOWER_N>>, out)
        /\ ~Occurs(<<CH_LOWER_A + 8, CH_LOWER_N, CH_LOWER_F>>, out)
        /\ (doc.k = "number" /\ doc.n.cls # "finite") => out = LIT_NULL

C13_Witness ==
    /\ Dumped
    /\ wopts.pretty
    /\ doc.k = "array"
    /\ Len(doc.a) = 2
    /\ doc.a[1].k = "object"
    /\ Len(doc.a[1].o) = 2
    /\ doc.a[1].o[1].val = VNum(NaN, DefaultResource)
    /\ doc.a[1].o[2].val = VNum(Infinity(TRUE), DefaultResource)
    /\ doc.a[2] = VNum(Infinity(FALSE), DefaultResource)
    /\ Occurs(LIT_NULL, out)

----------------------------------------------------------------------------
(* Calls of the DOM API on doc, one at a time; call records the last one:  *)
(* the member called, the Value before the call, the arguments and what    *)
(* the call returned (test/tests.cpp, "operator[] Index Grows and Fills    *)
(* With Null", "operator[] String Inserts Null When Missing", "as_array    *)
(* Converts Null to Empty Array").                                         *)

MaxIndex == 3

(* value::operator[](std::size_t): the Value after v[idx].                 *)
subscript_index(v, idx) ==
    LET grown(arr) == [arr EXCEPT !.a = resize(arr.a, idx + 1, VNull(v.res))]
    IN  grown(as_array(v))

(* An operator[] that stores Null under the key even when it is present.   *)
subscript_key_resetting(v, key) == key_assign(v, key, VNull(v.res))

(* value::operator[](std::string_view): the Value after v[key].            *)
subscript_key(v, key) ==
    LET emplaced(obj) ==
            IF map_find(obj.o, key, 1) # 0 THEN obj
            ELSE [obj EXCEPT !.o = map_assign(obj.o, key, VNull(v.res))]
    IN  emplaced(as_object(v))

(* static const value null_sentinel{}                                      *)
null_sentinel == VNull(DefaultResource)

(* value::operator[](std::size_t) const                                    *)
const_index(v, idx) ==
    IF v.k # "array" THEN null_sentinel
    ELSE IF idx >= Len(v.a) THEN null_sentinel
    ELSE v.a[idx + 1]

(* value::find: the position of the entry found, 0 for nullptr.            *)
find(v, key) ==
    IF v.k # "object" THEN 0 ELSE map_find(v.o, key, 1)

(* A lookup that reports a missing key as entry 0 instead of throwing.     *)
at_nothrow(v, key) == [thrown |-> "none", entry |-> find(v, key)]

(* value::at: the entry find yields, or std::out_of_range.                 *)
at(v, key) ==
    IF find(v, key) # 0 THEN [thrown |-> "none", entry |-> find(v, key)]
    ELSE [thrown |-> "out_of_range", entry |-> 0]

(* value::size                                                             *)
size(v) ==
    IF v.k = "array" THEN Len(v.a)
    ELSE IF v.k = "object" THEN Len(v.o)
    ELSE 0

(* value::type                                                             *)
type(v) == v.k

(* The scalars stored into the trees of this section.                      *)
ApiValues ==
    { VNull(CustomResource), VBool(TRUE, DefaultResource),
      VNum(Double(FALSE, <<4, 2>>, 1), DefaultResource) }

ApiKeys == { <<CH_LOWER_A>>, <<CH_LOWER_B>> }

(* doc = val                                                               *)
Assign(val) ==
    /\ pc = "input"
    /\ doc' = val
    /\ call' = [op |-> "assign", before |-> doc]
    /\ UNCHANGED <<toks, text, opts, pc, res, wopts, out, res2, other>>

(* doc[idx]                                                                *)
SubscriptIndex(idx) ==
    /\ pc = "input"
    /\ doc' = subscript_index(doc, idx)
    /\ call' = [op |-> "operator[](size_t)", before |-> doc, idx |-> idx]
    /\ UNCHANGED <<toks, text, opts, pc, res, wopts, out, res2, other>>

(* doc[key]                                                                *)
SubscriptKey(key) ==
    /\ pc = "input"
    /\ doc' = subscript_key(doc, key)
    /\ call' = [op |-> "operator[](string_view)", before |-> doc, key |-> key]
    /\ UNCHANGED <<toks, text, opts, pc, res, wopts, out, res2, other>>

(* ref = val, ref being the reference the last operator[] returned.        *)
Store(val) ==
    /\ pc = "input"
    /\ call.op \in {"operator[](size_t)", "operator[](string_view)"}
    /\ doc' = IF call.op = "operator[](size_t)"
              THEN [doc EXCEPT !.a[call.idx + 1] = val]
              ELSE [doc EXCEPT !.o[map_find(doc.o, call.key, 1)].val = val]
    /\ call' = [op |-> "store", before |-> doc]
    /\ UNCHANGED <<toks, text, opts, pc, res, wopts, out, res2, other>>

(* doc.as_array()                                                          *)
AsArray ==
    /\ pc = "input"
    /\ doc' = as_array(doc)
    /\ call' = [op |-> "as_array", before |-> doc]
    /\ UNCHANGED <<toks, text, opts, pc, res, wopts, out, res2, other>>

(* doc.as_object()                                                         *)
AsObject ==
    /\ pc = "input"
    /\ doc' = as_object(doc)
    /\ call' = [op |-> "as_object", before |-> doc]
    /\ UNCHANGED <<toks, text, opts, pc, res, wopts, out, res2, other>>

(* The const members, called on a const reference to doc.                  *)
Lookup(idx, key) ==
    /\ pc = "input"
    /\ call' = [op |-> "lookup", before |-> doc, idx |-> idx, key |-> key,
                index |-> const_index(doc, idx), find |-> find(doc, key),
                at |-> at(doc, key), size |-> size(doc), type |-> type(doc)]
    /\ UNCHANGED <<toks, text, opts, pc, res, wopts, out, res2, doc, other>>

NextApi ==
    \/ \E val \in ApiValues : Assign(val)
    \/ \E idx \in 0..MaxIndex : SubscriptIndex(idx)
    \/ \E key \in ApiKeys : SubscriptKey(key)
    \/ \E val \in ApiValues : Store(val)
    \/ AsArray
    \/ AsObject
    \/ \E idx \in 0..MaxIndex, key \in ApiKeys : Lookup(idx, key)

SpecApi == Init /\ [][NextApi]_vars

----------------------------------------------------------------------------
(* Claims about the calls recorded in call.                                *)

Called(op) == pc = "input" /\ call.op = op

LengthBefore == IF call.before.k = "array" THEN Len(call.before.a) ELSE 0

Max(a, b) == IF a >= b THEN a ELSE b

(* C14: v[i] on an array of length n keeps the elements 0..n-1, makes the  *)
(* length max(n, i + 1) and sets every new slot to Null; on any other kind *)
(* the result is an array of length i + 1 whose slots are all Null; a      *)
(* value assigned to the slot lands at index i and nowhere else.           *)
C14_GrowthFill ==
    Called("operator[](size_t)") =>
        /\ doc.k = "array"
        /\ Len(doc.a) = Max(LengthBefore, call.idx + 1)
        /\ \A j \in 1..LengthBefore : doc.a[j] = call.before.a[j]
        /\ \A j \in (LengthBefore + 1)..Len(doc.a) : doc.a[j].k = "null"
        /\ call.before.k # "array" =>
               (Len(doc.a) = call.idx + 1 /\ \A j \in 1..Len(doc.a) : doc.a[j].k = "null")
        /\ \A val \in ApiValues :
               index_assign(call.before, call.idx, val) = [doc EXCEPT !.a[call.idx + 1] = val]

C14_Witness ==
    /\ Called("operator[](size_t)")
    /\ call.before.k = "array"
    /\ Len(call.before.a) = 2
    /\ call.before.a[1].k = "number"
    /\ call.before.a[2].k = "boolean"
    /\ call.idx = MaxIndex
    /\ Len(doc.a) = MaxIndex + 1

KeysOf(v) == IF v.k = "object" THEN { v.o[j].key : j \in 1..Len(v.o) } ELSE {}

ValueAt(v, key) == v.o[CHOOSE j \in 1..Len(v.o) : v.o[j].key = key].val

(* C15: v[key] on an object that contains key changes nothing; on an       *)
(* object without key it inserts exactly the entry key -> Null and keeps   *)
(* the other entries; on any other kind the result is the object with the  *)
(* single entry key -> Null.                                               *)
C15_KeySubscript ==
    Called("operator[](string_view)") =>
        /\ doc.k = "object"
        /\ (call.before.k = "object" /\ call.key \in KeysOf(call.before)) => doc = call.before
        /\ (call.before.k = "object" /\ call.key \notin KeysOf(call.before)) =>
               /\ Len(doc.o) = Len(call.before.o) + 1
               /\ KeysOf(doc) = KeysOf(call.before) \cup {call.key}
               /\ ValueAt(doc, call.key).k = "null"
               /\ \A key \in KeysOf(call.before) : ValueAt(doc, key) = ValueAt(call.before, key)
        /\ call.before.k # "object" =>
               /\ Len(doc.o) = 1
               /\ doc.o[1].key = call.key
               /\ doc.o[1].val.k = "null"

C15_Witness ==
    /\ Called("operator[](string_view)")
    /\ call.before.k = "object"
    /\ Len(call.before.o) = 2
    /\ call.key = <<CH_LOWER_A>>
    /\ ValueAt(call.before, <<CH_LOWER_A>>).k = "number"
    /\ ValueAt(doc, <<CH_LOWER_A>>).k = "number"

(* C16: as_array() on a Value that is no array leaves an empty array and   *)
(* on an array changes nothing; as_object() likewise for objects; after    *)
(* either call type() is the requested kind.                               *)
C16_KindCoercion ==
    /\ Called("as_array") =>
           /\ type(doc) = "array"
           /\ call.before.k = "array" => doc = call.before
           /\ call.before.k # "array" => doc.a = <<>>
    /\ Called("as_object") =>
           /\ type(doc) = "object"
           /\ call.before.k = "object" => doc = call.before
           /\ call.before.k # "object" => doc.o = <<>>

C16_Witness ==
    /\ Called("as_array")
    /\ call.before.k = "array"
    /\ Len(call.before.a) = 2
    /\ call.before.a[2].k = "number"
    /\ Len(doc.a) = 2

----------------------------------------------------------------------------
(* Copies and comparisons of Values (src/value.cpp, copy constructor and   *)
(* copy assignment; include/sonnet/value.hpp, defaulted operator<=>;       *)
(* test/tests.cpp, "Value Equality is Structural").                        *)

RECURSIVE copy_value(_)

(* value::clone_storage(s, res): strings and containers are rebuilt with   *)
(* res, the elements and entries by value's copy constructor.              *)
clone_storage(v, r) ==
    CASE v.k = "null" -> VNull(r)
      [] v.k = "boolean" -> VBool(v.b, r)
      [] v.k = "number" -> VNum(v.n, r)
      [] v.k = "string" -> VStr(v.s, r)
      [] v.k = "array" -> VArr([i \in 1..Len(v.a) |-> copy_value(v.a[i])], r)
      [] v.k = "object" ->
           VObj([i \in 1..Len(v.o) |-> [key |-> v.o[i].key, val |-> copy_value(v.o[i].val)]], r)

(* A copy that takes the default memory resource for the copied node.      *)
copy_value_default(v) == clone_storage(v, DefaultResource)

(* value::value(const value& other) and, for this # &other,                *)
(* value::operator=(const value& other)                                    *)
copy_value(v) == clone_storage(v, v.res)

(* The index of the alternative a kind has in storage_t.                   *)
variant_index(k) ==
    CASE k = "null" -> 0
      [] k = "boolean" -> 1
      [] k = "number" -> 2
      [] k = "string" -> 3
      [] k = "array" -> 4
      [] k = "object" -> 5

(* a < b for doubles that are no NaN.                                      *)
double_less(a, b) ==
    LET sign(d) == IF d.cls = "finite" /\ d.dig = <<>> THEN 0 ELSE IF d.neg THEN -1 ELSE 1
        below(p, q) ==
            IF p.cls = "inf" THEN FALSE
            ELSE IF q.cls = "inf" THEN TRUE
            ELSE p.x < q.x \/ (p.x = q.x /\ DigitsLess(p.dig, q.dig))
    IN  IF sign(a) # sign(b) THEN sign(a) < sign(b)
        ELSE IF sign(a) = 0 THEN FALSE
        ELSE IF sign(a) = 1 THEN below(a, b)
        ELSE below(b, a)

(* a <=> b for doubles: a std::partial_ordering.                           *)
double_three_way(a, b) ==
    IF a.cls = "nan" \/ b.cls = "nan" THEN "unordered"
    ELSE IF double_less(a, b) THEN "less"
    ELSE IF double_less(b, a) THEN "greater"
    ELSE "equivalent"

RECURSIVE three_way(_, _, _)
RECURSIVE array_three_way(_, _, _, _)
RECURSIVE object_three_way(_, _, _, _)

(* std::lexicographical_compare_three_way over the elements from i on.     *)
array_three_way(a, b, low, i) ==
    IF i > Len(a) THEN (IF i > Len(b) THEN "equivalent" ELSE "less")
    ELSE IF i > Len(b) THEN "greater"
    ELSE IF three_way(a[i], b[i], low) # "equivalent" THEN three_way(a[i], b[i], low)
    ELSE array_three_way(a, b, low, i + 1)

(* The same over the entries of two maps, each entry by key, then value.   *)
object_three_way(a, b, low, i) ==
    IF i > Len(a) THEN (IF i > Len(b) THEN "equivalent" ELSE "less")
    ELSE IF i > Len(b) THEN "greater"
    ELSE IF string_less(a[i].key, b[i].key) THEN "less"
    ELSE IF string_less(b[i].key, a[i].key) THEN "greater"
    ELSE IF three_way(a[i].val, b[i].val, low) # "equivalent"
    THEN three_way(a[i].val, b[i].val, low)
    ELSE object_three_way(a, b, low, i + 1)

(* The defaulted operator<=>(const value&, const value&): m_MemRes, then   *)
(* m_Storage (alternative index, then the alternative's value).  low is    *)
(* the memory resource at the lower address.                               *)
three_way(a, b, low) ==
    IF a.res # b.res THEN (IF a.res = low THEN "less" ELSE "greater")
    ELSE IF variant_index(a.k) # variant_index(b.k)
    THEN (IF variant_index(a.k) < variant_index(b.k) THEN "less" ELSE "greater")
    ELSE CASE a.k = "null" -> "equivalent"
           [] a.k = "boolean" ->
                IF a.b = b.b THEN "equivalent" ELSE IF b.b THEN "less" ELSE "greater"
           [] a.k = "number" -> double_three_way(a.n, b.n)
           [] a.k = "string" ->
                IF string_less(a.s, b.s) THEN "less"
                ELSE IF string_less(b.s, a.s) THEN "greater" ELSE "equivalent"
           [] a.k = "array" -> array_three_way(a.a, b.a, low, 1)
           [] a.k = "object" -> object_three_way(a.o, b.o, low, 1)

(* The Values stored into the trees of this section.                       *)
CopyValues ==
    { VNull(DefaultResource), VNull(CustomResource), VNum(NaN, DefaultResource),
      VNum(Double(FALSE, <<4, 2>>, 1), DefaultResource), VStr(<<CH_LOWER_A>>, DefaultResource),
      VArr(<<VBool(TRUE, CustomResource)>>, DefaultResource) }

(* value other{ doc };                                                     *)
CopyConstruct ==
    /\ pc = "input"
    /\ other' = copy_value(doc)
    /\ call' = [op |-> "copy", before |-> doc]
    /\ UNCHANGED <<toks, text, opts, pc, res, wopts, out, res2, doc>>

(* other = doc;                                                            *)
CopyAssign ==
    /\ pc = "input"
    /\ other' = copy_value(doc)
    /\ call' = [op |-> "copy", before |-> doc]
    /\ UNCHANGED <<toks, text, opts, pc, res, wopts, out, res2, doc>>

(* doc = doc;     operator= returns at this == &other                      *)
SelfAssign ==
    /\ pc = "input"
    /\ call' = [op |-> "self_assign", before |-> doc]
    /\ UNCHANGED <<toks, text, opts, pc, res, wopts, out, res2, doc, other>>

(* other[idx] = val;                                                       *)
MutateCopy(idx, val) ==
    /\ pc = "input"
    /\ call.op \in {"copy", "mutate_copy"}
    /\ other' = index_assign(other, idx, val)
    /\ call' = [op |-> "mutate_copy", before |-> other]
    /\ UNCHANGED <<toks, text, opts, pc, res, wopts, out, res2, doc>>

(* The largest index this section subscripts with.                         *)
MaxCopyIndex == 0

NextCopy ==
    \/ \E val \in CopyValues : Assign(val)
    \/ \E idx \in 0..MaxCopyIndex : SubscriptIndex(idx)
    \/ SubscriptKey(<<CH_LOWER_A>>)
    \/ \E val \in CopyValues : Store(val)
    \/ CopyConstruct
    \/ CopyAssign
    \/ SelfAssign
    \/ \E idx \in 0..MaxCopyIndex, val \in CopyValues : MutateCopy(idx, val)

SpecCopy == Init /\ [][NextCopy]_vars

----------------------------------------------------------------------------
(* Equality of Values.                                                     *)

RECURSIVE SameContents(_, _)

(* The same kind and, recursively, equal contents; the memory resources    *)
(* of the two trees play no part.                                          *)
SameContents(a, b) ==
    /\ a.k = b.k
    /\ CASE a.k = "null" -> TRUE
         [] a.k = "boolean" -> a.b = b.b
         [] a.k = "number" -> double_eq(a.n, b.n)
         [] a.k = "string" -> a.s = b.s
         [] a.k = "array" ->
              /\ Len(a.a) = Len(b.a)
              /\ \A i \in 1..Len(a.a) : SameContents(a.a[i], b.a[i])
         [] a.k = "object" ->
              /\ Len(a.o) = Len(b.o)
              /\ \A i \in 1..Len(a.o) :
                    a.o[i].key = b.o[i].key /\ SameContents(a.o[i].val, b.o[i].val)

(* C18: a == b holds exactly when a and b hold the same kind and,          *)
(* recursively, equal contents, whichever memory resource each of them or  *)
(* any of their descendants is associated with.                            *)
C18_StructuralEquality == value_eq(doc, other) <=> SameContents(doc, other)

(* Two Values of equal contents whose nodes are all on the default         *)
(* resource do compare equal, and == never holds between different         *)
(* contents.                                                               *)
EqualityOnDefaultResource ==
    /\ value_eq(doc, other) => SameContents(doc, other)
    /\ (/\ AllNodes(doc, OnDefaultResource) /\ AllNodes(other, OnDefaultResource)
        /\ SameContents(doc, other)) => value_eq(doc, other)

----------------------------------------------------------------------------
(* Ordering of Values.                                                     *)

(* A node that holds no NaN.                                               *)
NotNaN(n) == ~(n.k = "number" /\ n.n.cls = "nan")

(* a < b as the rewritten (a <=> b) < 0.                                    *)
value_less(a, b, low) == three_way(a, b, low) = "less"

(* C19: the comparison of two Values is decided by kind first, in the      *)
(* order null < bool < number < string < array < object, and only for      *)
(* equal kinds by payload; on NaN-free Values exactly one of a < b,        *)
(* a == b, b < a holds, < is transitive, and the order is consistent       *)
(* with ==.  Stated for either order of the memory resources' addresses.   *)
C19_KindFirstOrdering ==
    \A low \in Resources :
        /\ doc.k # other.k =>
               (value_less(doc, other, low) <=> variant_index(doc.k) < variant_index(other.k))
        /\ (AllNodes(doc, NotNaN) /\ AllNodes(other, NotNaN)) =>
               /\ (three_way(doc, other, low) = "equivalent") <=> value_eq(doc, other)
               /\ \/ value_less(doc, other, low) /\ ~value_eq(doc, other) /\ ~value_less(other, doc, low)
                  \/ ~value_less(doc, other, low) /\ value_eq(doc, other) /\ ~value_less(other, doc, low)
                  \/ ~value_less(doc, other, low) /\ ~value_eq(doc, other) /\ value_less(other, doc, low)
        /\ (call.op # "none" /\ value_less(call.before, doc, low) /\ value_less(doc, other, low))
               => value_less(call.before, other, low)

(* Between two Values whose nodes are all on one memory resource the       *)
(* member-wise comparison is decided by kind first.                        *)
KindFirstOnDefaultResource ==
    (AllNodes(doc, OnDefaultResource) /\ AllNodes(other, OnDefaultResource) /\ doc.k # other.k)
        => \A low \in Resources :
               value_less(doc, other, low) <=> variant_index(doc.k) < variant_index(other.k)

----------------------------------------------------------------------------
(* Copies.                                                                 *)

(* The memory resources of the nodes of a tree, in document order.         *)
ResourcesOf(v) == [i \in 1..Len(Nodes(v)) |-> Nodes(v)[i].res]

(* After a copy the destination is on the source's memory resource, node   *)
(* by node.                                                                *)
CopyKeepsResources ==
    call.op = "copy" => (other.res = doc.res /\ ResourcesOf(other) = ResourcesOf(doc))

(* doc = doc leaves doc as it was.                                         *)
SelfAssignIsNoOp == call.op = "self_assign" => doc = call.before

(* No step changes both Values: a mutation of the copy leaves the source   *)
(* as it is, a mutation of the source leaves the copy as it is.            *)
CopyIsIndependent ==
    /\ call'.op = "mutate_copy" => doc' = doc
    /\ (call'.op \notin {"copy", "mutate_copy"}) => other' = other

----------------------------------------------------------------------------
(* Strings that the input leaves open (src/sonnet.cpp, parse_string),      *)
(* over the texts of SpecSur.                                              *)

(* The four bytes from t[i] on are hex digits.                             *)
Hex4At(t, i) == i + 3 <= Len(t) /\ \A j \in i..(i + 3) : hex_digit(t[j]) >= 0

Hex4Value(t, i) ==
    hex_digit(t[i]) * 4096 + hex_digit(t[i + 1]) * 256 + hex_digit(t[i + 2]) * 16
        + hex_digit(t[i + 3])

RECURSIVE StringEnd(_, _)
(* Reads the content of a string from t[i] on by the grammar of strings:   *)
(* "closed" at the closing quote, "open" when the text ends after          *)
(* complete characters and escapes, "open_escape" when it ends right       *)
(* after a backslash, "in_unicode" when it ends inside a \uXXXX escape or  *)
(* between the two escapes of a surrogate pair, "error" at a byte the      *)
(* grammar does not allow.                                                 *)
StringEnd(t, i) ==
    LET unicode(j) ==
            IF Hex4At(t, j)
            THEN IF Hex4Value(t, j) >= HIGH_FIRST /\ Hex4Value(t, j) <= HIGH_LAST
                 THEN IF j + 5 <= Len(t) /\ t[j + 4] = CH_BACKSLASH /\ t[j + 5] = CH_LOWER_U
                      THEN IF Hex4At(t, j + 6)
                           THEN IF Hex4Value(t, j + 6) >= LOW_FIRST
                                   /\ Hex4Value(t, j + 6) <= LOW_LAST
                                THEN StringEnd(t, j + 10)
                                ELSE "error"
                           ELSE IF \A k \in (j + 6)..Len(t) : hex_digit(t[k]) >= 0
                           THEN "in_unicode" ELSE "error"
                      ELSE IF j + 4 > Len(t) \/ (j + 4 = Len(t) /\ t[j + 4] = CH_BACKSLASH)
                      THEN "in_unicode" ELSE "error"
                 ELSE IF Hex4Value(t, j) >= LOW_FIRST /\ Hex4Value(t, j) <= LOW_LAST
                 THEN "error"
                 ELSE StringEnd(t, j + 4)
            ELSE IF j + 3 > Len(t) /\ \A k \in j..Len(t) : hex_digit(t[k]) >= 0
            THEN "in_unicode" ELSE "error"
        escape(j) ==
            IF j > Len(t) THEN "open_escape"
            ELSE IF t[j] \in {CH_QUOTE, CH_BACKSLASH, CH_SLASH, CH_LOWER_B, CH_LOWER_F,
                              CH_LOWER_N, CH_LOWER_R, CH_LOWER_T}
            THEN StringEnd(t, j + 1)
            ELSE IF t[j] = CH_LOWER_U THEN unicode(j + 1)
            ELSE "error"
    IN  IF i > Len(t) THEN "open"
        ELSE IF t[i] = CH_QUOTE THEN "closed"
        ELSE IF t[i] < CH_CTRL_LIMIT THEN "error"
        ELSE IF t[i] = CH_BACKSLASH THEN escape(i + 1)
        ELSE StringEnd(t, i + 1)

(* The text opens a string and ends before the string's closing quote.     *)
Unterminated(t) ==
    Len(t) >= 1 /\ t[1] = CH_QUOTE /\ StringEnd(t, 2) \in {"open", "open_escape"}

(* C21: every input in which a string literal has been opened and that     *)
(* ends before its closing quote, with no earlier error in the string and  *)
(* not in the middle of a \uXXXX escape, fails with                        *)
(* unexpected_end_of_input, also when it ends right after a backslash.     *)
C21_UnterminatedStrings ==
    (Parsed /\ Unterminated(text)) => FailsWith(res, "unexpected_end_of_input")

(* What parse_string does with such inputs: unexpected_end_of_input at     *)
(* the end of the text after complete characters and escapes,              *)
(* invalid_escape at the end of the text after a backslash.                *)
UnterminatedStringCodes ==
    (Parsed /\ Unterminated(text)) =>
        /\ ~res.ok
        /\ res.err.offset = Len(text)
        /\ res.err.errc = (IF StringEnd(text, 2) = "open" THEN "unexpected_end_of_input"
                                                         ELSE "invalid_escape")

----------------------------------------------------------------------------
(* Memory resources of the nodes of a tree (include/sonnet/value.hpp,      *)
(* "Memory Management"; test/tests.cpp, "Value Uses Provided               *)
(* memory_resource"), over the calls of SpecApi.                           *)

(* A node on the memory resource of the root of doc.                       *)
OnResourceOfDoc(n) == n.res = doc.res

(* C22: after any sequence of as_array/as_object, operator[] by index or   *)
(* key and assignments into the slots operator[] returns, applied to a     *)
(* Value constructed with memory resource A, the Value and every           *)
(* descendant node it owns are associated with A.                          *)
C22_AllocatorScope == AllNodes(doc, OnResourceOfDoc)

(* The nodes that operator[] and as_array/as_object themselves create are  *)
(* on the resource of the Value they are called on.                        *)
CreatedNodesOnResource ==
    (/\ call.op \in {"operator[](size_t)", "operator[](string_view)", "as_array", "as_object"}
     /\ AllNodes(call.before, LAMBDA n : n.res = call.before.res))
        => AllNodes(doc, OnResourceOfDoc)

----------------------------------------------------------------------------
(* The depth counter of the scanner (src/sonnet.cpp, DepthGuard), over     *)
(* shorter texts of the pieces of SpecDepth.                               *)

MaxScopeToks == 4

NextScope == TypeFrom(DepthTokens, MaxScopeToks) \/ ParseWith(DepthOptions)

SpecScope == Init /\ [][NextScope]_vars

(* A scanner at offset i of the text with d containers open.               *)
ScannerAt(i, d) == [Scanner EXCEPT !.idx = i, !.depth = d]

(* The depths a scanner can have on entry to a grammar function under o.   *)
EntryDepths(o) == IF o.max_depth = 0 THEN 0..MaxDepthLimit ELSE 0..o.max_depth

(* C23: every call of parse_array and parse_object leaves Scanner.depth    *)
(* equal to its value before the call on every exit path, so depth is 0    *)
(* whenever parse returns; a DepthGuard never raises depth above           *)
(* max_depth when max_depth > 0, so 0 <= depth <= max_depth in every       *)
(* scanner state.                                                          *)
C23_DepthScoped ==
    Parsed =>
        /\ res.s.depth = 0
        /\ \A i \in 0..Len(text), d \in EntryDepths(opts) :
              /\ parse_array(text, opts, ScannerAt(i, d)).s.depth = d
              /\ parse_object(text, opts, ScannerAt(i, d)).s.depth = d
              /\ DepthGuard(opts, ScannerAt(i, d)).s.depth >= d
              /\ opts.max_depth > 0 =>
                     DepthGuard(opts, ScannerAt(i, d)).s.depth <= opts.max_depth

(* A parse that fails inside the second of two nested containers, the      *)
(* inner call leaving through an error and the outer one through the       *)
(* error of its element.                                                   *)
C23_Witness ==
    /\ Parsed
    /\ opts.max_depth = 2
    /\ Len(text) >= 3
    /\ text[1] = CH_LBRACKET /\ text[2] = CH_LBRACKET
    /\ FailsWith(res, "unexpected_character")
    /\ res.err.offset >= 2
    /\ res.s.depth = 0

----------------------------------------------------------------------------
(* Where the rejection of an array's trailing comma is reported, over the  *)
(* texts of SpecArr.                                                       *)

(* Byte i is the trailing comma that the strict parse of the text rejects: *)
(* the text without it parses.                                             *)
RejectedCommaAt(i) ==
    /\ Parsed
    /\ ~opts.allow_trailing_commas
    /\ TrailingCommaAt(text, i, CH_LBRACKET, CH_RBRACKET)
    /\ parse_impl(Without(text, i), opts).ok
    /\ FailsWith(res, "trailing_characters")

(* C24: when an array's trailing comma is rejected because                 *)
(* allow_trailing_commas is false, the trailing_characters error is        *)
(* located at the comma, also when whitespace separates the comma from     *)
(* the closing bracket.                                                    *)
C24_TrailingCommaPosition ==
    \A i \in 1..Len(text) :
        RejectedCommaAt(i) => (res.err.offset = i - 1 /\ res.err.column = i)

(* The error is located at the closing bracket behind the comma.           *)
TrailingCommaReportedAtBracket ==
    \A i \in 1..Len(text) :
        RejectedCommaAt(i) =>
            /\ res.err.offset = NextNonWs(text, i) - 1
            /\ res.err.column = NextNonWs(text, i)
            /\ res.err.line = 1

----------------------------------------------------------------------------
(* The error a failed parse returns, over the texts and options of         *)
(* SpecPos.                                                                *)

(* The text up to and including the two bytes the scanner can look at      *)
(* from offset k (peek and peek_next).                                     *)
CutBehind(t, k) == IF k + 2 >= Len(t) THEN t ELSE SubSeq(t, 1, k + 2)

(* C25: once a grammar function has produced an error the cursor never     *)
(* advances again and every enclosing level returns at once: the scanner   *)
(* parse ends with stands where the error was detected, parse returns no   *)
(* Value, and the error is exactly the one detected, whatever bytes        *)
(* follow the place of the error in the input.                             *)
C25_FirstErrorWins ==
    (Parsed /\ ~res.ok) =>
        /\ res.s.idx = res.err.offset
        /\ res.s.line = res.err.line
        /\ res.s.column = res.err.column
        /\ "v" \notin DOMAIN res
        /\ ~parse_impl(CutBehind(text, res.err.offset), opts).ok
        /\ parse_impl(CutBehind(text, res.err.offset), opts).err = res.err

(* An error inside a nested container with more input behind it.           *)
C25_Witness ==
    /\ Parsed
    /\ Len(text) >= 4
    /\ text[1] = CH_LBRACKET
    /\ text[2] = CH_MINUS
    /\ text[3] = CH_LF
    /\ FailsWith(res, "unexpected_character")
    /\ res.err.offset = 2
    /\ res.s.idx = 2

----------------------------------------------------------------------------
(* Comments put where whitespace may stand, over the texts of SpecCmt.     *)

(* The text with the bytes ins put in behind its first i bytes.            *)
Inserted(t, i, ins) == SubSeq(t, 1, i) \o ins \o SubSeq(t, i + 1, Len(t))

(* A terminated block comment and a line comment ended by a newline.       *)
InsertedComments == { BLOCK_OPEN \o BLOCK_CLOSE, LINE_OPEN \o <<CH_LF>> }

(* Whitespace is insignificant behind the first i bytes of the text: with  *)
(* a space there the text parses to the same Value.                        *)
WhitespacePermitted(i) ==
    /\ parse_impl(Inserted(text, i, <<CH_SPACE>>), opts).ok
    /\ value_eq(parse_impl(Inserted(text, i, <<CH_SPACE>>), opts).v, res.v)

(* With the comment c behind its first i bytes the text parses to the      *)
(* same Value.                                                             *)
CommentInsignificant(i, c) ==
    /\ parse_impl(Inserted(text, i, c), opts).ok
    /\ value_eq(parse_impl(Inserted(text, i, c), opts).v, res.v)

RECURSIVE EndsExponent(_, _, _)
(* The bytes of t up to the i-th end in the exponent of a number: digits,  *)
(* before them an optional sign, before that 'e' or 'E'.                   *)
EndsExponent(t, i, digits) ==
    IF i < 1 THEN FALSE
    ELSE IF isdigit(t[i]) THEN EndsExponent(t, i - 1, TRUE)
    ELSE IF ~digits THEN FALSE
    ELSE IF t[i] \in {CH_PLUS, CH_MINUS} THEN i > 1 /\ t[i - 1] \in {CH_LOWER_E, CH_UPPER_E}
    ELSE t[i] \in {CH_LOWER_E, CH_UPPER_E}

(* C26: with allow_comments = true, for every text that parses, a          *)
(* terminated block comment or a line comment ended by a newline put at    *)
(* any place where whitespace is insignificant, also directly behind a     *)
(* number, gives a text that parses to an equal Value.  Stated for texts   *)
(* that hold no comment yet.                                               *)
C26_CommentsInsignificant ==
    (Parsed /\ opts.allow_comments /\ res.ok /\ ~HasComment(text)) =>
        \A i \in 0..Len(text), c \in InsertedComments :
            WhitespacePermitted(i) => CommentInsignificant(i, c)

(* The same holds at every place but the one directly behind the exponent  *)
(* of a number.                                                            *)
CommentsInsignificantButAfterExponent ==
    (Parsed /\ opts.allow_comments /\ res.ok /\ ~HasComment(text)) =>
        \A i \in 0..Len(text), c \in InsertedComments :
            (WhitespacePermitted(i) /\ ~EndsExponent(text, i, FALSE))
                => CommentInsignificant(i, c)

----------------------------------------------------------------------------
(* String literals of raw bytes (test/tests.cpp, "RFC8259 - Valid UTF-8    *)
(* in Strings", "RFC8259 - Invalid UTF-8 is Rejected").                    *)

MaxUtf8Len == 4

(* 'A' and the bytes at the borders of the ranges of continuation and      *)
(* lead bytes: 8F, 90, 9F, A0, C1, C2, E0, ED, F0, F4, F5.                 *)
Utf8Bytes == {CH_UPPER_A, 143, 144, 159, 160, 193, 194, 224, 237, 240, 244, 245}

(* The caller writes one more byte into the string literal the input is.   *)
TypeByte(b) ==
    /\ pc = "input"
    /\ Len(toks) < MaxUtf8Len
    /\ toks' = Append(toks, <<b>>)
    /\ text' = IF text = <<>> THEN <<CH_QUOTE, b, CH_QUOTE>>
               ELSE SubSeq(text, 1, Len(text) - 1) \o <<b, CH_QUOTE>>
    /\ UNCHANGED <<opts, pc, res, wopts, out, res2, doc, other, call>>

NextUtf8 ==
    \/ \E b \in Utf8Bytes : TypeByte(b)
    \/ ParseWith({DefaultParseOptions})

SpecUtf8 == Init /\ [][NextUtf8]_vars

(* The bytes between the quotes of the input.                              *)
Content == SubSeq(text, 2, Len(text) - 1)

(* The input as the key of the single member of an object.                 *)
AsKey == <<CH_LBRACE>> \o text \o <<CH_COLON, CH_0, CH_RBRACE>>

(* A code point that UTF-8 encodes: U+0000..U+D7FF or U+E000..U+10FFFF.    *)
IsScalarValue(cp) == (cp >= 0 /\ cp <= 55295) \/ (cp >= 57344 /\ cp <= 1114111)

(* The shortest-form encoding of a code point.                             *)
Encoding(cp) ==
    IF cp < 128 THEN <<cp>>
    ELSE IF cp < 2048 THEN <<192 + (cp \div 64), 128 + (cp % 64)>>
    ELSE IF cp < 65536 THEN Utf8Of3(cp)
    ELSE Utf8Of4(cp)

(* The number a sequence of one to four bytes stands for when its bytes    *)
(* are read as a lead byte of that length and continuation bytes.          *)
Decoded(b) ==
    CASE Len(b) = 1 -> b[1]
      [] Len(b) = 2 -> (b[1] - 192) * 64 + (b[2] - 128)
      [] Len(b) = 3 -> (b[1] - 224) * 4096 + (b[2] - 128) * 64 + (b[3] - 128)
      [] Len(b) = 4 ->
           (b[1] - 240) * 262144 + (b[2] - 128) * 4096 + (b[3] - 128) * 64 + (b[4] - 128)

IsEncoding(b) == IsScalarValue(Decoded(b)) /\ Encoding(Decoded(b)) = b

RECURSIVE WellFormedUtf8(_)
(* A concatenation of shortest-form encodings of scalar values.            *)
WellFormedUtf8(d) ==
    \/ d = <<>>
    \/ \E n \in 1..4 :
          /\ n <= Len(d)
          /\ IsEncoding(SubSeq(d, 1, n))
          /\ WellFormedUtf8(SubSeq(d, n + 1, Len(d)))

(* C27: a string literal, value or object key, is accepted only if its     *)
(* bytes are well-formed UTF-8: is_valid_utf8 is true exactly for          *)
(* concatenations of shortest-form encodings of U+0000..U+D7FF and         *)
(* U+E000..U+10FFFF, and every other literal fails with invalid_string.    *)
C27_Utf8Validation ==
    LET agrees(wf, key) ==
            /\ is_valid_utf8(Content) <=> wf
            /\ res.ok <=> wf
            /\ res.ok => (res.v.k = "string" /\ res.v.s = Content)
            /\ ~res.ok => FailsWith(res, "invalid_string")
            /\ key.ok <=> wf
            /\ ~key.ok => FailsWith(key, "invalid_string")
    IN  (Parsed /\ text # <<>>) => agrees(WellFormedUtf8(Content), parse_impl(AsKey, opts))

(* An encoded surrogate, ED A0 8F, is rejected.                            *)
C27_Witness ==
    /\ Parsed
    /\ Content = <<237, 160, 143>>
    /\ ~WellFormedUtf8(Content)
    /\ FailsWith(res, "invalid_string")

----------------------------------------------------------------------------
(* Line and column of the scanner, over the texts and options of SpecPos.  *)

(* The newline bytes among the first k bytes of t.                         *)
NewlinesBefore(t, k) == Cardinality({j \in 1..k : t[j] = CH_LF})

(* The number of the last newline byte among the first k bytes, 0 if       *)
(* there is none.                                                          *)
LastNewlineBefore(t, k) ==
    IF \E j \in 1..k : t[j] = CH_LF
    THEN CHOOSE j \in 1..k : t[j] = CH_LF /\ \A m \in (j + 1)..k : t[m] # CH_LF
    ELSE 0

(* C28: line and column are consistent with the offset: in the scanner     *)
(* state parse ends with and in every returned error, line is 1 plus the   *)
(* number of newline bytes before the offset and column is 1 plus the      *)
(* number of bytes between the last newline before the offset, or the      *)
(* start of the input, and the offset.                                     *)
C28_LineColumn ==
    Parsed =>
        /\ res.s.line = 1 + NewlinesBefore(text, res.s.idx)
        /\ res.s.column = 1 + (res.s.idx - LastNewlineBefore(text, res.s.idx))
        /\ ~res.ok =>
              /\ res.err.line = 1 + NewlinesBefore(text, res.err.offset)
              /\ res.err.column =
                     1 + (res.err.offset - LastNewlineBefore(text, res.err.offset))

(* An error on the second line, behind a byte of that line.                *)
C28_Witness ==
    /\ Parsed
    /\ ~res.ok
    /\ Len(text) >= 3
    /\ text[2] = CH_LF
    /\ res.err.offset >= 3
    /\ res.err.line = 2
    /\ res.err.column = res.err.offset - 1

----------------------------------------------------------------------------
(* Inputs that hold NUL bytes (src/sonnet.cpp, Scanner::peek returning     *)
(* '\0' at the end of the input).                                          *)

MaxNulToks == 5

NulTokens ==
    { <<CH_NUL>>, <<CH_LBRACKET>>, <<CH_LBRACE>>, STR_A, <<CH_COLON>>, <<CH_0 + 1>>,
      <<CH_COMMA>> }

NextNul == TypeFrom(NulTokens, MaxNulToks) \/ ParseWith({DefaultParseOptions})

SpecNul == Init /\ [][NextNul]_vars

(* C29: unexpected_end_of_input is reported only at the real end of the    *)
(* input: if parse fails with that code, the error's offset is the length  *)
(* of the input, also for inputs that hold NUL bytes.                      *)
C29_EndOfInputAtEnd ==
    (Parsed /\ FailsWith(res, "unexpected_end_of_input")) => res.err.offset = Len(text)

(* For inputs without a NUL byte the code is reported at the end only.     *)
EndOfInputAtEndWithoutNul ==
    (/\ Parsed
     /\ FailsWith(res, "unexpected_end_of_input")
     /\ \A j \in 1..Len(text) : text[j] # CH_NUL) => res.err.offset = Len(text)

----------------------------------------------------------------------------
(* The same input under stricter and more permissive options               *)
(* (include/sonnet/options.hpp, ParseOptions).                             *)

MaxExtToks == 5

ExtTokens ==
    { <<CH_LBRACKET>>, <<CH_RBRACKET>>, <<CH_COMMA>>, <<CH_SPACE>>,
      <<CH_QUOTE>> \o BLOCK_OPEN \o <<CH_QUOTE>>, OPEN_MEMBER, <<CH_RBRACE>> }

NextExt == TypeFrom(ExtTokens, MaxExtToks) \/ ParseWith(DepthOptions)

SpecExt == Init /\ [][NextExt]_vars

(* The options that extend the strict ones by comments, trailing commas    *)
(* or both.                                                                *)
Extensions == { ParseOptions(TRUE, FALSE, 0), ParseOptions(FALSE, TRUE, 0),
                ParseOptions(TRUE, TRUE, 0) }

(* The limits that are more permissive than n > 0: every larger one and    *)
(* 0, no limit.                                                            *)
LargerLimits(n) == {0} \cup { m \in 1..(MaxDepthLimit + 1) : m > n }

(* The input parses under o to a Value equal to the one in res.            *)
SameUnder(o) == parse_impl(text, o).ok /\ value_eq(parse_impl(text, o).v, res.v)

(* C30: the extensions only extend the accepted language: an input that    *)
(* parses under the strict options parses to an equal Value with           *)
(* allow_comments and/or allow_trailing_commas set, and an input accepted  *)
(* under max_depth = N parses to an equal Value under every larger limit   *)
(* and under max_depth = 0.                                                *)
C30_ExtensionsExtend ==
    (Parsed /\ res.ok) =>
        /\ opts = DefaultParseOptions => \A o \in Extensions : SameUnder(o)
        /\ opts.max_depth > 0 =>
               \A m \in LargerLimits(opts.max_depth) : SameUnder([opts EXCEPT !.max_depth = m])

(* A Value of two nested levels around a string that holds the opening of  *)
(* a comment, accepted under max_depth = 2.                                *)
C30_Witness ==
    /\ Parsed
    /\ res.ok
    /\ opts.max_depth = 2
    /\ ValueDepth(res.v) = 2
    /\ \E j \in 1..Len(text) : text[j] = CH_SLASH

=============================================================================
